---- MODULE Spec2Model ----
(***************************************************************************)
(* Model of the circular_buffer crate: CircularBuffer (compile-time        *)
(* capacity), CircularBufferDyn (capacity chosen at construction) and      *)
(* CircularBufferMultiRead (one writer, several read cursors).             *)
(*                                                                         *)
(* Rust arrays, Vecs and slices are TLA+ sequences: the Rust index i is    *)
(* the TLA+ index i + 1, the Rust range a..b is the TLA+ range a+1..b.     *)
(* Every method is an operator from the object (a record with the struct's *)
(* fields) and the arguments to a record [self, ret, panic]: the object    *)
(* afterwards, the value returned, and whether the call panicked.          *)
(***************************************************************************)
EXTENDS Integers, Sequences, FiniteSets, TLC

\* ------------------------------------------------------------------ bounds
\* CAPACITY of CircularBuffer<T, CAPACITY> and CircularBufferMultiRead.
CAPACITY == 4
\* MAX_READ_CURSOR_COUNT of CircularBufferMultiRead.
MAX_READ_CURSOR_COUNT == 2
\* Longest input handed to extend, beyond CAPACITY so that writes truncate.
MaxInput == 5
\* Largest amount asked of take, beyond CAPACITY so that reads come up short.
MaxAmount == 5

\* The capacities CircularBufferDyn::new is called with.
DynCapacities == 1..CAPACITY

\* Elements are stamps 1..ValMod handed out in order by the producer; the
\* methods never inspect an element (T: Copy / Clone), so distinct stamps in
\* the window of CAPACITY slots show any loss, duplication or reordering.
ValMod == CAPACITY + 1
Stamp(n) == (n % ValMod) + 1
\* T::default()
Default == 0

\* ----------------------------------------------------------- Rust slices
Min(a, b) == IF a <= b THEN a ELSE b

\* The bounds check of s[a..b]: a <= b <= s.len().
SliceOk(s, a, b) == a >= 0 /\ a <= b /\ b <= Len(s)

\* &s[a..b]
Slice(s, a, b) == SubSeq(s, a + 1, b)

\* dst[a..b].copy_from_slice(src) / clone_from_slice(src); panics unless the
\* range is in bounds and both slices have the same length.
CopyOk(dst, a, b, src) == SliceOk(dst, a, b) /\ Len(src) = b - a
CopyFromSlice(dst, a, b, src) ==
    [i \in 1..Len(dst) |-> IF i > a /\ i <= b THEN src[i - a] ELSE dst[i]]

\* vec![value; n] and [value; N]
Filled(value, n) == [i \in 1..n |-> value]

\* Vec::rotate_left(mid); panics if mid > len.
RotateOk(s, mid) == mid <= Len(s)
RotateLeft(s, mid) ==
    [i \in 1..Len(s) |-> s[((i - 1 + mid) % Len(s)) + 1]]

\* The outcome of a call that panicked: unwinding leaves the object as it is.
Panicked(self) == [self |-> self, ret |-> 0, panic |-> TRUE]
Returned(self, value) == [self |-> self, ret |-> value, panic |-> FALSE]

\* ========================================================== CircularBuffer
\* CircularBuffer::new / new_const
CB_new == [buffer |-> Filled(Default, CAPACITY), read_cursor |-> 0, write_cursor |-> 0]

\* len with the sign of the wrapped branch slipped (CAPACITY + ... instead of
\* CAPACITY - ...).
CB_len_wrapped_sign(self) ==
    Min(IF self.write_cursor >= self.read_cursor
        THEN self.write_cursor - self.read_cursor
        ELSE CAPACITY + (self.read_cursor - self.write_cursor),
        CAPACITY)

\* CircularBuffer::len
CB_len(self) ==
    Min(IF self.write_cursor >= self.read_cursor
        THEN self.write_cursor - self.read_cursor
        ELSE CAPACITY - (self.read_cursor - self.write_cursor),
        CAPACITY)

\* CircularBuffer::is_empty
CB_is_empty(self) == CB_len(self) = 0

\* CircularBuffer::is_full
CB_is_full(self) == CB_len(self) = CAPACITY - 1

\* extend, line 44: the length the input is cut to when it does not fit.
CB_truncated_len(available_space) == available_space - 1

\* extend, line 55: the write cursor after a contiguous copy.
CB_advance_write(write_cursor, required_space) == (write_cursor + required_space) % CAPACITY

\* extend, lines 54-56: the contiguous copy.
CB_write(self, input) ==
    LET required_space == Len(input)
        from == self.write_cursor
    IN  IF ~CopyOk(self.buffer, from, from + required_space, input)
        THEN Panicked(self)
        ELSE Returned([self EXCEPT
                 !.buffer = CopyFromSlice(self.buffer, from, from + required_space, input),
                 !.write_cursor = CB_advance_write(from, required_space)],
               required_space)

\* The comparison off by one (> for >=): an input of exactly the free space
\* is written whole.
CB_input_too_large_strict(required_space, available_space) == required_space > available_space

\* extend, line 43: the input does not fit with one slot left empty.
CB_input_too_large(required_space, available_space) == required_space >= available_space

\* The rest of a split input taken to be the whole input again.
CB_split_rest_whole_input(input, available_space_before_wrap, required_space) ==
    Slice(input, 0, required_space)

\* The rest of a split input taken from the start of the input again.
CB_split_rest_from_start(input, available_space_before_wrap, required_space) ==
    Slice(input, 0, required_space - available_space_before_wrap)

\* extend, line 50: the part of a split input written after the wrap.
CB_split_rest(input, available_space_before_wrap, required_space) ==
    Slice(input, available_space_before_wrap, required_space)

\* CircularBuffer::extend
RECURSIVE CB_extend(_, _)
CB_extend(self, input) ==
    LET used_space == CB_len(self)
        available_space == CAPACITY - used_space
        required_space == Len(input)
        available_space_before_wrap == CAPACITY - self.write_cursor
    IN  IF CB_input_too_large(required_space, available_space)
        THEN \* available_space - 1 underflows usize when available_space = 0
             IF ~SliceOk(input, 0, CB_truncated_len(available_space))
             THEN Panicked(self)
             ELSE CB_extend(self, Slice(input, 0, CB_truncated_len(available_space)))
        ELSE IF available_space_before_wrap < required_space
        THEN LET first == CB_extend(self, Slice(input, 0, available_space_before_wrap))
                 second == CB_extend(first.self,
                               CB_split_rest(input, available_space_before_wrap, required_space))
             IN  IF first.panic THEN first
                 ELSE IF second.panic THEN second
                 ELSE Returned(second.self, first.ret + second.ret)
        ELSE CB_write(self, input)

\* take_to_buffer, line 79 and lines 81-85: the read cursor after the
\* straight part and after the wrapped part.
CB_read_cursor_after(read_cursor, straight_space, wrapped_space) ==
    IF wrapped_space # 0
    THEN (read_cursor + straight_space) - CAPACITY + wrapped_space
    ELSE read_cursor + straight_space

\* The amount taken not limited to what is stored.
CB_used_required_space_unlimited(used_space, output_len) == output_len

\* take_to_buffer, line 74: how much is taken.
CB_used_required_space(used_space, output_len) == Min(used_space, output_len)

\* CircularBuffer::take_to_buffer; ret is <<output, amount taken>>.
CB_take_to_buffer(self, output) ==
    LET used_space == CB_len(self)
        used_required_space == CB_used_required_space(used_space, Len(output))
        straight_space == Min(used_required_space, CAPACITY - self.read_cursor)
        wrapped_space == used_required_space - straight_space
        after_straight == self.read_cursor + straight_space
        wrapped_from == after_straight - CAPACITY
        straight == Slice(self.buffer, self.read_cursor, after_straight)
        output1 == CopyFromSlice(output, 0, straight_space, straight)
    IN  IF used_space = 0 THEN Returned(self, <<output, 0>>)
        ELSE IF ~SliceOk(self.buffer, self.read_cursor, after_straight)
        THEN Panicked(self)
        ELSE IF wrapped_space = 0
        THEN Returned([self EXCEPT !.read_cursor =
                          CB_read_cursor_after(self.read_cursor, straight_space, 0)],
                      <<output1, straight_space>>)
        ELSE IF wrapped_from < 0
                \/ ~SliceOk(self.buffer, wrapped_from, wrapped_from + wrapped_space)
        THEN Panicked([self EXCEPT !.read_cursor = after_straight])
        ELSE Returned([self EXCEPT !.read_cursor =
                          CB_read_cursor_after(self.read_cursor, straight_space, wrapped_space)],
                      <<CopyFromSlice(output1, straight_space, straight_space + wrapped_space,
                            Slice(self.buffer, wrapped_from, wrapped_from + wrapped_space)),
                        straight_space + wrapped_space>>)

\* The branches one call of extend goes through, in the order it takes them,
\* the calls it makes on itself included: "truncate" (the input is cut to
\* the free space less one), "split" (the input goes in two parts, before
\* and after the end of the array), "copy" (a contiguous copy into the
\* backing store), "panic".
RECURSIVE CB_extend_trace(_, _)
CB_extend_trace(self, input) ==
    LET used_space == CB_len(self)
        available_space == CAPACITY - used_space
        required_space == Len(input)
        available_space_before_wrap == CAPACITY - self.write_cursor
    IN  IF CB_input_too_large(required_space, available_space)
        THEN IF ~SliceOk(input, 0, CB_truncated_len(available_space))
             THEN <<"truncate", "panic">>
             ELSE <<"truncate">>
                  \o CB_extend_trace(self, Slice(input, 0, CB_truncated_len(available_space)))
        ELSE IF available_space_before_wrap < required_space
        THEN LET head == Slice(input, 0, available_space_before_wrap)
                 first == CB_extend(self, head)
             IN  <<"split">>
                 \o CB_extend_trace(self, head)
                 \o (IF first.panic THEN <<>>
                     ELSE CB_extend_trace(first.self,
                              CB_split_rest(input, available_space_before_wrap, required_space)))
        ELSE IF CB_write(self, input).panic THEN <<"panic">> ELSE <<"copy">>

\* The contiguous copies one call of take_to_buffer makes out of the backing
\* store: none on an empty ring, the straight part, and the wrapped part if
\* there is one.
CB_take_copies(self, output) ==
    LET used_space == CB_len(self)
        used_required_space == CB_used_required_space(used_space, Len(output))
        straight_space == Min(used_required_space, CAPACITY - self.read_cursor)
        wrapped_space == used_required_space - straight_space
    IN  IF used_space = 0 THEN 0 ELSE IF wrapped_space # 0 THEN 2 ELSE 1

\* CircularBuffer::take
CB_take(self, amount) ==
    LET taken == CB_take_to_buffer(self, Filled(Default, amount))
    IN  IF taken.panic THEN taken
        ELSE Returned(taken.self, Slice(taken.ret[1], 0, taken.ret[2]))

\* raw_data rotated to the write cursor instead of the read cursor.
CB_raw_data_from_write_cursor(self) ==
    IF ~RotateOk(self.buffer, self.write_cursor) THEN Panicked(self)
    ELSE Returned(self, RotateLeft(self.buffer, self.write_cursor))

\* CircularBuffer::raw_data
CB_raw_data(self) ==
    IF ~RotateOk(self.buffer, self.read_cursor) THEN Panicked(self)
    ELSE Returned(self, RotateLeft(self.buffer, self.read_cursor))

\* ======================================================= CircularBufferDyn
\* CircularBufferDyn::new
Dyn_new(capacity) ==
    [buffer |-> Filled(Default, capacity), capacity |-> capacity,
     read_cursor |-> 0, write_cursor |-> 0]

\* CircularBufferDyn::len
Dyn_len(self) ==
    Min(IF self.write_cursor >= self.read_cursor
        THEN self.write_cursor - self.read_cursor
        ELSE self.capacity - (self.read_cursor - self.write_cursor),
        self.capacity)

\* CircularBufferDyn::is_empty
Dyn_is_empty(self) == Dyn_len(self) = 0

\* CircularBufferDyn::is_full
Dyn_is_full(self) == Dyn_len(self) = self.capacity - 1

\* extend, line 45: the length the input is cut to when it does not fit.
Dyn_truncated_len(available_space) == available_space - 1

\* extend, line 56: the write cursor after a contiguous copy.
Dyn_advance_write(self, required_space) ==
    (self.write_cursor + required_space) % self.capacity

\* extend, lines 55-57: the contiguous copy.
Dyn_write(self, input) ==
    LET required_space == Len(input)
        from == self.write_cursor
    IN  IF ~CopyOk(self.buffer, from, from + required_space, input)
        THEN Panicked(self)
        ELSE Returned([self EXCEPT
                 !.buffer = CopyFromSlice(self.buffer, from, from + required_space, input),
                 !.write_cursor = Dyn_advance_write(self, required_space)],
               required_space)

\* extend, line 44: the input does not fit with one slot left empty.
Dyn_input_too_large(required_space, available_space) == required_space >= available_space

\* The rest of a split input taken from the start of the input again.
Dyn_split_rest_from_start(input, available_space_before_wrap, required_space) ==
    Slice(input, 0, required_space - available_space_before_wrap)

\* extend, line 51: the part of a split input written after the wrap.
Dyn_split_rest(input, available_space_before_wrap, required_space) ==
    Slice(input, available_space_before_wrap, required_space)

\* CircularBufferDyn::extend
RECURSIVE Dyn_extend(_, _)
Dyn_extend(self, input) ==
    LET used_space == Dyn_len(self)
        available_space == self.capacity - used_space
        required_space == Len(input)
        available_space_before_wrap == self.capacity - self.write_cursor
    IN  IF Dyn_input_too_large(required_space, available_space)
        THEN \* available_space - 1 underflows usize when available_space = 0
             IF ~SliceOk(input, 0, Dyn_truncated_len(available_space))
             THEN Panicked(self)
             ELSE Dyn_extend(self, Slice(input, 0, Dyn_truncated_len(available_space)))
        ELSE IF available_space_before_wrap < required_space
        THEN LET first == Dyn_extend(self, Slice(input, 0, available_space_before_wrap))
                 second == Dyn_extend(first.self,
                               Dyn_split_rest(input, available_space_before_wrap, required_space))
             IN  IF first.panic THEN first
                 ELSE IF second.panic THEN second
                 ELSE Returned(second.self, first.ret + second.ret)
        ELSE Dyn_write(self, input)

\* push storing the item without asking whether there is room.
Dyn_push_unchecked(self, input) == Dyn_write(self, <<input>>)

\* CircularBufferDyn::push
Dyn_push(self, input) == Dyn_extend(self, <<input>>)

\* The read cursor brought back into range after every take.
Dyn_read_cursor_after_modulo(self, straight_space, wrapped_space) ==
    (self.read_cursor + straight_space + wrapped_space) % self.capacity

\* take_to_buffer, line 95 and lines 97-101: the read cursor after the
\* straight part and after the wrapped part.
Dyn_read_cursor_after(self, straight_space, wrapped_space) ==
    IF wrapped_space # 0
    THEN (self.read_cursor + straight_space) - self.capacity + wrapped_space
    ELSE self.read_cursor + straight_space

\* take_to_buffer, line 90: how much is taken.
Dyn_used_required_space(used_space, output_len) == Min(used_space, output_len)

\* CircularBufferDyn::take_to_buffer; ret is <<output, amount taken>>.
Dyn_take_to_buffer(self, output) ==
    LET used_space == Dyn_len(self)
        used_required_space == Dyn_used_required_space(used_space, Len(output))
        straight_space == Min(used_required_space, self.capacity - self.read_cursor)
        wrapped_space == used_required_space - straight_space
        after_straight == self.read_cursor + straight_space
        wrapped_from == after_straight - self.capacity
        straight == Slice(self.buffer, self.read_cursor, after_straight)
        output1 == CopyFromSlice(output, 0, straight_space, straight)
    IN  IF used_space = 0 THEN Returned(self, <<output, 0>>)
        ELSE IF ~SliceOk(self.buffer, self.read_cursor, after_straight)
        THEN Panicked(self)
        ELSE IF wrapped_space = 0
        THEN Returned([self EXCEPT !.read_cursor =
                          Dyn_read_cursor_after(self, straight_space, 0)],
                      <<output1, straight_space>>)
        ELSE IF wrapped_from < 0
                \/ ~SliceOk(self.buffer, wrapped_from, wrapped_from + wrapped_space)
        THEN Panicked([self EXCEPT !.read_cursor = after_straight])
        ELSE Returned([self EXCEPT !.read_cursor =
                          Dyn_read_cursor_after(self, straight_space, wrapped_space)],
                      <<CopyFromSlice(output1, straight_space, straight_space + wrapped_space,
                            Slice(self.buffer, wrapped_from, wrapped_from + wrapped_space)),
                        straight_space + wrapped_space>>)

\* The branches one call of extend goes through, in the order it takes them,
\* the calls it makes on itself included: "truncate" (the input is cut to
\* the free space less one), "split" (the input goes in two parts, before
\* and after the end of the array), "copy" (a contiguous copy into the
\* backing store), "panic".
RECURSIVE Dyn_extend_trace(_, _)
Dyn_extend_trace(self, input) ==
    LET used_space == Dyn_len(self)
        available_space == self.capacity - used_space
        required_space == Len(input)
        available_space_before_wrap == self.capacity - self.write_cursor
    IN  IF Dyn_input_too_large(required_space, available_space)
        THEN IF ~SliceOk(input, 0, Dyn_truncated_len(available_space))
             THEN <<"truncate", "panic">>
             ELSE <<"truncate">>
                  \o Dyn_extend_trace(self, Slice(input, 0, Dyn_truncated_len(available_space)))
        ELSE IF available_space_before_wrap < required_space
        THEN LET head == Slice(input, 0, available_space_before_wrap)
                 first == Dyn_extend(self, head)
             IN  <<"split">>
                 \o Dyn_extend_trace(self, head)
                 \o (IF first.panic THEN <<>>
                     ELSE Dyn_extend_trace(first.self,
                              Dyn_split_rest(input, available_space_before_wrap, required_space)))
        ELSE IF Dyn_write(self, input).panic THEN <<"panic">> ELSE <<"copy">>

\* The contiguous copies one call of take_to_buffer makes out of the backing
\* store: none on an empty ring, the straight part, and the wrapped part if
\* there is one.
Dyn_take_copies(self, output) ==
    LET used_space == Dyn_len(self)
        used_required_space == Dyn_used_required_space(used_space, Len(output))
        straight_space == Min(used_required_space, self.capacity - self.read_cursor)
        wrapped_space == used_required_space - straight_space
    IN  IF used_space = 0 THEN 0 ELSE IF wrapped_space # 0 THEN 2 ELSE 1

\* CircularBufferDyn::take
Dyn_take(self, amount) ==
    LET taken == Dyn_take_to_buffer(self, Filled(Default, amount))
    IN  IF taken.panic THEN taken
        ELSE Returned(taken.self, Slice(taken.ret[1], 0, taken.ret[2]))

\* CircularBufferDyn::take_one
Dyn_take_one(self) ==
    LET found == Dyn_take(self, 1)
    IN  IF found.panic THEN found
        ELSE IF found.ret = <<>> THEN Returned(found.self, Default)
        ELSE Returned(found.self, found.ret[1])

\* take_all leaving the newest element behind.
Dyn_take_all_but_newest(self) ==
    Dyn_take(self, IF Dyn_len(self) > 0 THEN Dyn_len(self) - 1 ELSE 0)

\* CircularBufferDyn::take_all
Dyn_take_all(self) == Dyn_take(self, Dyn_len(self))

\* CircularBufferDyn::raw_data
Dyn_raw_data(self) ==
    IF ~RotateOk(self.buffer, self.read_cursor) THEN Panicked(self)
    ELSE Returned(self, RotateLeft(self.buffer, self.read_cursor))

\* ================================================= CircularBufferMultiRead
\* A ReadCursor(id) is its id; the cursors the buffer has handed out.
Cursors(self) == 0..(self.current_read_cursor_count - 1)

\* CircularBufferMultiRead::new / new_const
MR_new ==
    [buffer |-> Filled(Default, CAPACITY),
     read_cursors |-> Filled(0, MAX_READ_CURSOR_COUNT),
     current_read_cursor_count |-> 0,
     write_cursor |-> 0]

\* The bounds check of self.read_cursors[cursor.0].
MR_cursor_ok(self, cursor) == cursor >= 0 /\ cursor < Len(self.read_cursors)

\* create_read_cursor, lines 47-49: the explicit overflow check.
MR_cursor_overflow(cursor_id) == cursor_id > MAX_READ_CURSOR_COUNT

\* create_read_cursor handing out the last slot again when the registry is
\* full, instead of failing.
MR_create_read_cursor_reusing_last_slot(self) ==
    LET cursor_id == Min(self.current_read_cursor_count, MAX_READ_CURSOR_COUNT - 1)
        counted == [self EXCEPT !.current_read_cursor_count = cursor_id + 1]
    IN  IF ~MR_cursor_ok(counted, cursor_id) THEN Panicked(counted)
        ELSE Returned([counted EXCEPT !.read_cursors[cursor_id + 1] = self.write_cursor],
                      cursor_id)

\* create_read_cursor starting the new cursor at slot 0, not at the write
\* cursor.
MR_create_read_cursor_at_start(self) ==
    LET cursor_id == self.current_read_cursor_count
        counted == [self EXCEPT !.current_read_cursor_count = cursor_id + 1]
    IN  IF MR_cursor_overflow(cursor_id) THEN Panicked(self)
        ELSE IF ~MR_cursor_ok(counted, cursor_id) THEN Panicked(counted)
        ELSE Returned([counted EXCEPT !.read_cursors[cursor_id + 1] = 0], cursor_id)

\* CircularBufferMultiRead::create_read_cursor; the count is raised before
\* the registry is indexed, so a panic of the indexing leaves it raised.
MR_create_read_cursor(self) ==
    LET cursor_id == self.current_read_cursor_count
        counted == [self EXCEPT !.current_read_cursor_count = cursor_id + 1]
    IN  IF MR_cursor_overflow(cursor_id) THEN Panicked(self)
        ELSE IF ~MR_cursor_ok(counted, cursor_id) THEN Panicked(counted)
        ELSE Returned([counted EXCEPT !.read_cursors[cursor_id + 1] = self.write_cursor],
                      cursor_id)

\* skip_current_data moving every cursor, not only the named one.
MR_skip_current_data_every_cursor(self, cursor) ==
    IF ~MR_cursor_ok(self, cursor) THEN Panicked(self)
    ELSE Returned([self EXCEPT !.read_cursors =
                      [i \in 1..Len(self.read_cursors) |-> self.write_cursor]], 0)

\* CircularBufferMultiRead::skip_current_data
MR_skip_current_data(self, cursor) ==
    IF ~MR_cursor_ok(self, cursor) THEN Panicked(self)
    ELSE Returned([self EXCEPT !.read_cursors[cursor + 1] = self.write_cursor], 0)

\* CircularBufferMultiRead::len
MR_len(self, cursor) ==
    LET read_cursor == self.read_cursors[cursor + 1]
    IN  Min(IF self.write_cursor >= read_cursor
            THEN self.write_cursor - read_cursor
            ELSE CAPACITY - (read_cursor - self.write_cursor),
            CAPACITY)

\* CircularBufferMultiRead::is_empty
MR_is_empty(self, cursor) == MR_len(self, cursor) = 0

\* CircularBufferMultiRead::is_full
MR_is_full(self, cursor) == MR_len(self, cursor) = CAPACITY - 1

\* Iterator::max over a set of lengths, None as 0 (unwrap_or_default).
MaxOrDefault(lens) ==
    IF lens = {} THEN 0 ELSE CHOOSE m \in lens : \A n \in lens : n <= m

\* Only the first cursor looked at (the iteration over the cursors forgotten).
MR_used_space_of_first_cursor(self) ==
    IF self.current_read_cursor_count = 0 THEN 0 ELSE MR_len(self, 0)

\* The least any cursor has left to read (min for max): the fastest reader
\* instead of the slowest.
MR_smallest_used_space(self) ==
    LET lens == {MR_len(self, cursor_index) : cursor_index \in Cursors(self)}
    IN  IF lens = {} THEN 0 ELSE CHOOSE m \in lens : \A n \in lens : m <= n

\* The largest len over every slot of the registry, allocated or not.
MR_largest_used_space_of_registry(self) ==
    MaxOrDefault({MR_len(self, cursor_index) : cursor_index \in 0..(MAX_READ_CURSOR_COUNT - 1)})

\* extend, line 69: the most any cursor has left to read.
MR_largest_used_space(self) ==
    MaxOrDefault({MR_len(self, cursor_index) : cursor_index \in Cursors(self)})

\* The input cut so that two slots stay empty, not one.
MR_truncated_len_two_slots(available_space) == available_space - 2

\* extend, line 75: the length the input is cut to when it does not fit.
MR_truncated_len(available_space) == available_space - 1

\* extend, line 86: the write cursor after a contiguous copy.
MR_advance_write(write_cursor, required_space) == (write_cursor + required_space) % CAPACITY

\* The contiguous copy that also moves the first read cursor to where the
\* copy began.
MR_write_moving_first_cursor(self, input) ==
    LET required_space == Len(input)
        from == self.write_cursor
    IN  IF ~CopyOk(self.buffer, from, from + required_space, input)
        THEN Panicked(self)
        ELSE Returned([self EXCEPT
                 !.buffer = CopyFromSlice(self.buffer, from, from + required_space, input),
                 !.write_cursor = MR_advance_write(from, required_space),
                 !.read_cursors[1] = from],
               required_space)

\* extend, lines 85-87: the contiguous copy.
MR_write(self, input) ==
    LET required_space == Len(input)
        from == self.write_cursor
    IN  IF ~CopyOk(self.buffer, from, from + required_space, input)
        THEN Panicked(self)
        ELSE Returned([self EXCEPT
                 !.buffer = CopyFromSlice(self.buffer, from, from + required_space, input),
                 !.write_cursor = MR_advance_write(from, required_space)],
               required_space)

\* The comparison off by one (> for >=) in the multi-reader ring.
MR_input_too_large_strict(required_space, available_space) == required_space > available_space

\* extend, line 74: the input does not fit with one slot left empty.
MR_input_too_large(required_space, available_space) == required_space >= available_space

\* The rest of a split input taken from the start of the input again.
MR_split_rest_from_start(input, available_space_before_wrap, required_space) ==
    Slice(input, 0, required_space - available_space_before_wrap)

\* extend, line 81: the part of a split input written after the wrap.
MR_split_rest(input, available_space_before_wrap, required_space) ==
    Slice(input, available_space_before_wrap, required_space)

\* CircularBufferMultiRead::extend
RECURSIVE MR_extend(_, _)
MR_extend(self, input) ==
    LET largest_used_space == MR_largest_used_space(self)
        available_space == CAPACITY - largest_used_space
        required_space == Len(input)
        available_space_before_wrap == CAPACITY - self.write_cursor
    IN  IF \E cursor_index \in Cursors(self) : ~MR_cursor_ok(self, cursor_index)
        THEN Panicked(self)
        ELSE IF MR_input_too_large(required_space, available_space)
        THEN \* available_space - 1 underflows usize when available_space = 0
             IF ~SliceOk(input, 0, MR_truncated_len(available_space))
             THEN Panicked(self)
             ELSE MR_extend(self, Slice(input, 0, MR_truncated_len(available_space)))
        ELSE IF available_space_before_wrap < required_space
        THEN LET first == MR_extend(self, Slice(input, 0, available_space_before_wrap))
                 second == MR_extend(first.self,
                               MR_split_rest(input, available_space_before_wrap, required_space))
             IN  IF first.panic THEN first
                 ELSE IF second.panic THEN second
                 ELSE Returned(second.self, first.ret + second.ret)
        ELSE MR_write(self, input)

\* CircularBufferMultiRead::push
MR_push(self, input) == MR_extend(self, <<input>>)

\* take_to_buffer, line 137 and lines 139-143: the local read cursor after
\* the straight part and after the wrapped part.
MR_read_cursor_after(read_cursor, straight_space, wrapped_space) ==
    IF wrapped_space # 0
    THEN (read_cursor + straight_space) - CAPACITY + wrapped_space
    ELSE read_cursor + straight_space

\* take_to_buffer, line 132: how much is taken.
MR_used_required_space(used_space, output_len) == Min(used_space, output_len)

\* The local read cursor stored in the first slot of the registry, whatever
\* the cursor.
MR_store_read_cursor_first_slot(self, read_cursor_ref, read_cursor) ==
    [self EXCEPT !.read_cursors[1] = read_cursor]

\* take_to_buffer, line 146: the local read cursor is stored in the registry.
MR_store_read_cursor(self, read_cursor_ref, read_cursor) ==
    [self EXCEPT !.read_cursors[read_cursor_ref + 1] = read_cursor]

\* CircularBufferMultiRead::take_to_buffer; ret is <<output, amount taken>>.
\* The cursor is kept in a local and stored only at the end (line 146).
MR_take_to_buffer(self, output, read_cursor_ref) ==
    LET read_cursor == self.read_cursors[read_cursor_ref + 1]
        used_space == MR_len(self, read_cursor_ref)
        used_required_space == MR_used_required_space(used_space, Len(output))
        straight_space == Min(used_required_space, CAPACITY - read_cursor)
        wrapped_space == used_required_space - straight_space
        after_straight == read_cursor + straight_space
        wrapped_from == after_straight - CAPACITY
        straight == Slice(self.buffer, read_cursor, after_straight)
        output1 == CopyFromSlice(output, 0, straight_space, straight)
    IN  IF ~MR_cursor_ok(self, read_cursor_ref) THEN Panicked(self)
        ELSE IF used_space = 0 THEN Returned(self, <<output, 0>>)
        ELSE IF ~SliceOk(self.buffer, read_cursor, after_straight)
        THEN Panicked(self)
        ELSE IF wrapped_space = 0
        THEN Returned(MR_store_read_cursor(self, read_cursor_ref,
                          MR_read_cursor_after(read_cursor, straight_space, 0)),
                      <<output1, straight_space>>)
        ELSE IF wrapped_from < 0
                \/ ~SliceOk(self.buffer, wrapped_from, wrapped_from + wrapped_space)
        THEN Panicked(self)
        ELSE Returned(MR_store_read_cursor(self, read_cursor_ref,
                          MR_read_cursor_after(read_cursor, straight_space, wrapped_space)),
                      <<CopyFromSlice(output1, straight_space, straight_space + wrapped_space,
                            Slice(self.buffer, wrapped_from, wrapped_from + wrapped_space)),
                        straight_space + wrapped_space>>)

\* The branches one call of extend goes through, in the order it takes them,
\* the calls it makes on itself included: "truncate" (the input is cut to
\* the free space less one), "split" (the input goes in two parts, before
\* and after the end of the array), "copy" (a contiguous copy into the
\* backing store), "panic".
RECURSIVE MR_extend_trace(_, _)
MR_extend_trace(self, input) ==
    LET used_space == MR_largest_used_space(self)
        available_space == CAPACITY - used_space
        required_space == Len(input)
        available_space_before_wrap == CAPACITY - self.write_cursor
    IN  IF MR_input_too_large(required_space, available_space)
        THEN IF ~SliceOk(input, 0, MR_truncated_len(available_space))
             THEN <<"truncate", "panic">>
             ELSE <<"truncate">>
                  \o MR_extend_trace(self, Slice(input, 0, MR_truncated_len(available_space)))
        ELSE IF available_space_before_wrap < required_space
        THEN LET head == Slice(input, 0, available_space_before_wrap)
                 first == MR_extend(self, head)
             IN  <<"split">>
                 \o MR_extend_trace(self, head)
                 \o (IF first.panic THEN <<>>
                     ELSE MR_extend_trace(first.self,
                              MR_split_rest(input, available_space_before_wrap, required_space)))
        ELSE IF MR_write(self, input).panic THEN <<"panic">> ELSE <<"copy">>

\* The contiguous copies one call of take_to_buffer makes out of the backing
\* store: none on an empty ring, the straight part, and the wrapped part if
\* there is one.
MR_take_copies(self, output, read_cursor_ref) ==
    LET read_cursor == self.read_cursors[read_cursor_ref + 1]
        used_space == MR_len(self, read_cursor_ref)
        used_required_space == MR_used_required_space(used_space, Len(output))
        straight_space == Min(used_required_space, CAPACITY - read_cursor)
        wrapped_space == used_required_space - straight_space
    IN  IF used_space = 0 THEN 0 ELSE IF wrapped_space # 0 THEN 2 ELSE 1

\* CircularBufferMultiRead::take
MR_take(self, amount, read_cursor) ==
    LET taken == MR_take_to_buffer(self, Filled(Default, amount), read_cursor)
    IN  IF taken.panic THEN taken
        ELSE Returned(taken.self, Slice(taken.ret[1], 0, taken.ret[2]))

\* take_one looking at the oldest element without consuming it.
MR_take_one_peek(self, read_cursor) ==
    LET found == MR_take(self, 1, read_cursor)
    IN  IF found.panic THEN found
        ELSE IF found.ret = <<>> THEN Returned(self, Default)
        ELSE Returned(self, found.ret[1])

\* CircularBufferMultiRead::take_one
MR_take_one(self, read_cursor) ==
    LET found == MR_take(self, 1, read_cursor)
    IN  IF found.panic THEN found
        ELSE IF found.ret = <<>> THEN Returned(found.self, Default)
        ELSE Returned(found.self, found.ret[1])

\* CircularBufferMultiRead::take_all
MR_take_all(self, read_cursor) == MR_take(self, MR_len(self, read_cursor), read_cursor)

\* CircularBufferMultiRead::raw_data
MR_raw_data(self, read_cursor) ==
    IF ~MR_cursor_ok(self, read_cursor)
       \/ ~RotateOk(self.buffer, self.read_cursors[read_cursor + 1])
    THEN Panicked(self)
    ELSE Returned(self, RotateLeft(self.buffer, self.read_cursors[read_cursor + 1]))

\* ============================================================ the program
\* A program constructs one of the three rings and then calls its methods
\* in any order with any arguments, one call at a time: a call runs to its
\* end in one step (nothing here suspends), which leaves the call and the
\* state before it on record; the caller then goes on to its next call.
\* A panic ends the program.
VARIABLES
    variant,    \* the ring the program constructed
    cb,         \* the CircularBuffer
    dyn,        \* the CircularBufferDyn
    mr,         \* the CircularBufferMultiRead
    failed,     \* a call has panicked
    next_val,   \* the producer: the number of the next element it offers
    call,       \* the last call: method, arguments and what it returned
    pre,        \* the rings and the pending elements as they were before it
    pending,    \* per reader, the elements accepted by extend since the reader
                \* exists that the reader has neither taken nor skipped
    threads     \* the threads of a program that shares the ring between a
                \* writer thread and one reader thread per cursor: where each
                \* thread is inside its call, and its local variables

vars == <<variant, cb, dyn, mr, failed, next_val, call, pre, pending, threads>>

Variants == {"CircularBuffer", "CircularBufferDyn", "CircularBufferMultiRead"}

\* The readers: the single reader of the single-reader rings is reader 0.
Readers == 0..(MAX_READ_CURSOR_COUNT - 1)

\* The next k elements the producer offers.
Offer(k) == [i \in 1..k |-> Stamp(next_val + i - 1)]

Snapshot == [cb |-> cb, dyn |-> dyn, mr |-> mr, pending |-> pending]

Call(op, cursor, input, amount, ret, out, flag) ==
    [op |-> op, cursor |-> cursor, input |-> input, amount |-> amount,
     ret |-> ret, out |-> out, flag |-> flag]

\* Between two calls there is no call on record.
NoCall == Call("none", 0, <<>>, 0, 0, <<>>, FALSE)

\* A program that calls from one thread has no threads to keep track of.
NoThreads == <<>>
Idle == call = NoCall /\ ~failed

\* pending after extend accepted the first n elements of input, for readers rs
Accept(rs, input, n) ==
    [r \in Readers |-> IF r \in rs THEN pending[r] \o Slice(input, 0, n) ELSE pending[r]]

\* pending after reader r was handed n elements
Deliver(r, n) ==
    [pending EXCEPT ![r] = SubSeq(pending[r], n + 1, Len(pending[r]))]

\* pending after reader r dropped everything (a new or a skipped cursor)
Drop(r) == [pending EXCEPT ![r] = <<>>]

Init ==
    /\ variant \in Variants
    /\ cb = CB_new
    /\ \E capacity \in DynCapacities :
          /\ variant # "CircularBufferDyn" => capacity = CAPACITY
          /\ dyn = Dyn_new(capacity)
    /\ mr = MR_new
    /\ failed = FALSE
    /\ next_val = 0
    /\ call = NoCall
    /\ pending = [r \in Readers |-> <<>>]
    /\ pre = NoCall
    /\ threads = NoThreads

\* ------------------------------------------------- CircularBuffer actions
CB_Step(res, c, newpending, produced) ==
    /\ variant = "CircularBuffer"
    /\ Idle
    /\ pre' = Snapshot
    /\ cb' = res.self
    /\ failed' = res.panic
    /\ call' = c
    /\ pending' = IF res.panic THEN pending ELSE newpending
    /\ next_val' = (next_val + produced) % ValMod
    /\ UNCHANGED <<variant, dyn, mr, threads>>

CB_Extend ==
    \E k \in 0..MaxInput :
        LET input == Offer(k)
            res == CB_extend(cb, input)
        IN  CB_Step(res, Call("extend", 0, input, 0, res.ret, <<>>, FALSE),
                    Accept({0}, input, res.ret), res.ret)

CB_Take ==
    \E amount \in 0..MaxAmount :
        LET res == CB_take(cb, amount)
            out == IF res.panic THEN <<>> ELSE res.ret
        IN  CB_Step(res, Call("take", 0, <<>>, amount, Len(out), out, FALSE),
                    Deliver(0, Len(out)), 0)

CB_RawData ==
    LET res == CB_raw_data(cb)
        out == IF res.panic THEN <<>> ELSE res.ret
    IN  CB_Step(res, Call("raw_data", 0, <<>>, 0, 0, out, FALSE), pending, 0)

CB_Len ==
    CB_Step(Returned(cb, 0), Call("len", 0, <<>>, 0, CB_len(cb), <<>>, FALSE), pending, 0)

CB_IsEmpty ==
    CB_Step(Returned(cb, 0), Call("is_empty", 0, <<>>, 0, 0, <<>>, CB_is_empty(cb)), pending, 0)

CB_IsFull ==
    CB_Step(Returned(cb, 0), Call("is_full", 0, <<>>, 0, 0, <<>>, CB_is_full(cb)), pending, 0)

\* ---------------------------------------------- CircularBufferDyn actions
Dyn_Step(res, c, newpending, produced) ==
    /\ variant = "CircularBufferDyn"
    /\ Idle
    /\ pre' = Snapshot
    /\ dyn' = res.self
    /\ failed' = res.panic
    /\ call' = c
    /\ pending' = IF res.panic THEN pending ELSE newpending
    /\ next_val' = (next_val + produced) % ValMod
    /\ UNCHANGED <<variant, cb, mr, threads>>

Dyn_Extend ==
    \E k \in 0..MaxInput :
        LET input == Offer(k)
            res == Dyn_extend(dyn, input)
        IN  Dyn_Step(res, Call("extend", 0, input, 0, res.ret, <<>>, FALSE),
                     Accept({0}, input, res.ret), res.ret)

Dyn_Push ==
    LET input == Offer(1)
        res == Dyn_push(dyn, input[1])
    IN  Dyn_Step(res, Call("push", 0, input, 0, res.ret, <<>>, FALSE),
                 Accept({0}, input, res.ret), res.ret)

Dyn_Take ==
    \E amount \in 0..MaxAmount :
        LET res == Dyn_take(dyn, amount)
            out == IF res.panic THEN <<>> ELSE res.ret
        IN  Dyn_Step(res, Call("take", 0, <<>>, amount, Len(out), out, FALSE),
                     Deliver(0, Len(out)), 0)

\* take_one hands out an element exactly when the take inside it found one.
Dyn_TakeOne ==
    LET res == Dyn_take_one(dyn)
        found == IF res.panic THEN <<>> ELSE Dyn_take(dyn, 1).ret
    IN  Dyn_Step(res, Call("take_one", 0, <<>>, 1, res.ret, found, FALSE),
                 Deliver(0, Len(found)), 0)

Dyn_TakeAll ==
    LET res == Dyn_take_all(dyn)
        out == IF res.panic THEN <<>> ELSE res.ret
    IN  Dyn_Step(res, Call("take_all", 0, <<>>, Dyn_len(dyn), Len(out), out, FALSE),
                 Deliver(0, Len(out)), 0)

Dyn_RawData ==
    LET res == Dyn_raw_data(dyn)
        out == IF res.panic THEN <<>> ELSE res.ret
    IN  Dyn_Step(res, Call("raw_data", 0, <<>>, 0, 0, out, FALSE), pending, 0)

Dyn_Len ==
    Dyn_Step(Returned(dyn, 0), Call("len", 0, <<>>, 0, Dyn_len(dyn), <<>>, FALSE), pending, 0)

Dyn_IsEmpty ==
    Dyn_Step(Returned(dyn, 0), Call("is_empty", 0, <<>>, 0, 0, <<>>, Dyn_is_empty(dyn)), pending, 0)

Dyn_IsFull ==
    Dyn_Step(Returned(dyn, 0), Call("is_full", 0, <<>>, 0, 0, <<>>, Dyn_is_full(dyn)), pending, 0)

\* ---------------------------------------- CircularBufferMultiRead actions
MR_Step(res, c, newpending, produced) ==
    /\ variant = "CircularBufferMultiRead"
    /\ Idle
    /\ pre' = Snapshot
    /\ mr' = res.self
    /\ failed' = res.panic
    /\ call' = c
    /\ pending' = IF res.panic THEN pending ELSE newpending
    /\ next_val' = (next_val + produced) % ValMod
    /\ UNCHANGED <<variant, cb, dyn, threads>>

MR_CreateReadCursor ==
    LET res == MR_create_read_cursor(mr)
    IN  MR_Step(res, Call("create_read_cursor", res.ret, <<>>, 0, res.ret, <<>>, FALSE),
                Drop(res.ret), 0)

MR_SkipCurrentData ==
    \E cursor \in Cursors(mr) :
        MR_Step(MR_skip_current_data(mr, cursor),
                Call("skip_current_data", cursor, <<>>, 0, 0, <<>>, FALSE), Drop(cursor), 0)

MR_Extend ==
    \E k \in 0..MaxInput :
        LET input == Offer(k)
            res == MR_extend(mr, input)
        IN  MR_Step(res, Call("extend", 0, input, 0, res.ret, <<>>, FALSE),
                    Accept(Cursors(mr), input, res.ret), res.ret)

MR_Push ==
    LET input == Offer(1)
        res == MR_push(mr, input[1])
    IN  MR_Step(res, Call("push", 0, input, 0, res.ret, <<>>, FALSE),
                Accept(Cursors(mr), input, res.ret), res.ret)

MR_Take ==
    \E cursor \in Cursors(mr), amount \in 0..MaxAmount :
        LET res == MR_take(mr, amount, cursor)
            out == IF res.panic THEN <<>> ELSE res.ret
        IN  MR_Step(res, Call("take", cursor, <<>>, amount, Len(out), out, FALSE),
                    Deliver(cursor, Len(out)), 0)

\* The caller's output buffer holds default values, as the one take makes.
MR_TakeToBuffer ==
    \E cursor \in Cursors(mr), amount \in 0..MaxAmount :
        LET res == MR_take_to_buffer(mr, Filled(Default, amount), cursor)
            taken == IF res.panic THEN 0 ELSE res.ret[2]
            out == IF res.panic THEN <<>> ELSE Slice(res.ret[1], 0, taken)
        IN  MR_Step(res, Call("take_to_buffer", cursor, <<>>, amount, taken, out, FALSE),
                    Deliver(cursor, taken), 0)

MR_TakeOne ==
    \E cursor \in Cursors(mr) :
        LET res == MR_take_one(mr, cursor)
            found == IF res.panic THEN <<>> ELSE MR_take(mr, 1, cursor).ret
        IN  MR_Step(res, Call("take_one", cursor, <<>>, 1, res.ret, found, FALSE),
                    Deliver(cursor, Len(found)), 0)

MR_TakeAll ==
    \E cursor \in Cursors(mr) :
        LET res == MR_take_all(mr, cursor)
            out == IF res.panic THEN <<>> ELSE res.ret
        IN  MR_Step(res, Call("take_all", cursor, <<>>, MR_len(mr, cursor), Len(out), out, FALSE),
                    Deliver(cursor, Len(out)), 0)

MR_RawData ==
    \E cursor \in Cursors(mr) :
        LET res == MR_raw_data(mr, cursor)
            out == IF res.panic THEN <<>> ELSE res.ret
        IN  MR_Step(res, Call("raw_data", cursor, <<>>, 0, 0, out, FALSE), pending, 0)

MR_Len ==
    \E cursor \in Cursors(mr) :
        MR_Step(Returned(mr, 0),
                Call("len", cursor, <<>>, 0, MR_len(mr, cursor), <<>>, FALSE), pending, 0)

MR_IsEmpty ==
    \E cursor \in Cursors(mr) :
        MR_Step(Returned(mr, 0),
                Call("is_empty", cursor, <<>>, 0, 0, <<>>, MR_is_empty(mr, cursor)), pending, 0)

MR_IsFull ==
    \E cursor \in Cursors(mr) :
        MR_Step(Returned(mr, 0),
                Call("is_full", cursor, <<>>, 0, 0, <<>>, MR_is_full(mr, cursor)), pending, 0)

\* The caller has used what the call returned and goes on.
Return ==
    /\ call # NoCall
    /\ ~failed
    /\ call' = NoCall
    /\ pre' = NoCall
    /\ UNCHANGED <<variant, cb, dyn, mr, failed, next_val, pending, threads>>

Next ==
    \/ CB_Extend \/ CB_Take \/ CB_RawData \/ CB_Len \/ CB_IsEmpty \/ CB_IsFull
    \/ Dyn_Extend \/ Dyn_Push \/ Dyn_Take \/ Dyn_TakeOne \/ Dyn_TakeAll
    \/ Dyn_RawData \/ Dyn_Len \/ Dyn_IsEmpty \/ Dyn_IsFull
    \/ MR_CreateReadCursor \/ MR_SkipCurrentData \/ MR_Extend \/ MR_Push
    \/ MR_Take \/ MR_TakeToBuffer \/ MR_TakeOne \/ MR_TakeAll
    \/ MR_RawData \/ MR_Len \/ MR_IsEmpty \/ MR_IsFull
    \/ Return

Spec == Init /\ [][Next]_vars

\* ================================================================ claims
\* Views used by the formulas below.
IsCB == variant = "CircularBuffer"
IsDyn == variant = "CircularBufferDyn"
IsMR == variant = "CircularBufferMultiRead"
IsSingle == IsCB \/ IsDyn

\* A call of the named methods has just returned (it did not panic).
Called(ops) == call.op \in ops /\ ~failed

\* The cursors that have a slot in the registry.
Allocated(self) == Cursors(self) \cap Readers

\* The single-reader ring the program uses, now and before the last call.
SR_now == IF IsCB THEN cb ELSE dyn
SR_pre == IF IsCB THEN pre.cb ELSE pre.dyn
SR_capacity == IF IsCB THEN CAPACITY ELSE dyn.capacity
SR_len(ring) == IF IsCB THEN CB_len(ring) ELSE Dyn_len(ring)

\* The n slots of buffer from position read_cursor on, modulo the capacity.
SlotsFrom(buffer, read_cursor, n) ==
    [i \in 1..n |-> buffer[((read_cursor + i - 1) % Len(buffer)) + 1]]

\* The positions (Rust indexes) of these slots.
SlotSet(read_cursor, n, capacity) ==
    {(read_cursor + i) % capacity : i \in 0..(n - 1)}

\* What a reader has left to read, as the cursors and the buffer say.
SR_unread(ring) == SlotsFrom(ring.buffer, ring.read_cursor, SR_len(ring))
MR_unread(self, c) == SlotsFrom(self.buffer, self.read_cursors[c + 1], MR_len(self, c))

\* C1: sentinel bound. In every reachable state len() <= capacity - 1; in the
\* multi-reader ring len(cursor) <= CAPACITY - 1 for every allocated cursor.
C1_SentinelBound ==
    /\ IsCB => CB_len(cb) <= CAPACITY - 1
    /\ IsDyn => Dyn_len(dyn) <= dyn.capacity - 1
    /\ IsMR => \A c \in Allocated(mr) : MR_len(mr, c) <= CAPACITY - 1

\* C1 witness: an extend that was truncated has filled a ring whose write
\* cursor lies behind its read cursor (the wrapped branch of len).
C1_Witness ==
    /\ IsCB
    /\ Called({"extend"})
    /\ call.ret < Len(call.input)
    /\ cb.write_cursor < cb.read_cursor
    /\ CB_len(cb) = CAPACITY - 1

\* C2 (as claimed): the stored write cursor equals the stored read cursor if
\* and only if len() == 0, for the single reader and for every allocated
\* cursor of the multi-reader ring.
C2_EmptyMeansEqual ==
    /\ IsCB => (cb.write_cursor = cb.read_cursor <=> CB_len(cb) = 0)
    /\ IsDyn => (dyn.write_cursor = dyn.read_cursor <=> Dyn_len(dyn) = 0)
    /\ IsMR => \A c \in Allocated(mr) :
                  (mr.write_cursor = mr.read_cursors[c + 1] <=> MR_len(mr, c) = 0)

\* a is a prefix of b
IsPrefix(a, b) == Len(a) <= Len(b) /\ \A i \in 1..Len(a) : a[i] = b[i]

\* C3: FIFO order of the single-reader rings. The ring is a FIFO queue of at
\* most capacity - 1 elements: what the cursors and the buffer hold unread is
\* exactly the accepted elements not yet taken, in order (none lost,
\* duplicated or reordered, wrapped or not), and every take returns a prefix
\* of them, so that all take results together are a prefix of all accepted
\* input prefixes together.
C3_FifoOrder ==
    IsSingle =>
        /\ SR_unread(SR_now) = pending[0]
        /\ Len(pending[0]) <= SR_capacity - 1
        /\ Called({"take", "take_one", "take_all"}) => IsPrefix(call.out, pre.pending[0])

\* C3 witness: a take has returned elements from both ends of the array,
\* which an extend split in two had written.
C3_Witness ==
    /\ IsDyn
    /\ Called({"take"})
    /\ Len(call.out) = pre.dyn.capacity - 1
    /\ Len(call.out) >= 3
    /\ pre.dyn.read_cursor < pre.dyn.capacity
    /\ pre.dyn.read_cursor + Len(call.out) > pre.dyn.capacity
    /\ IsPrefix(call.out, pre.pending[0])

\* The most any allocated cursor had left to read before the call.
MR_used_before == MaxOrDefault({MR_len(pre.mr, c) : c \in Allocated(pre.mr)})

\* C4: truncation determinism. extend(input) with k = |input| and u elements
\* used (the largest len(c) of the multi-reader ring) returns min(k, C - u - 1),
\* stores exactly the first min(k, C - u - 1) elements of input, from the old
\* write cursor on, and len grows by the count returned.
C4_TruncationDeterminism ==
    Called({"extend", "push"}) =>
        LET k == Len(call.input)
            u == IF IsMR THEN MR_used_before ELSE SR_len(SR_pre)
            C == IF IsMR THEN CAPACITY ELSE SR_capacity
            n == Min(k, C - u - 1)
            from == IF IsMR THEN pre.mr.write_cursor ELSE SR_pre.write_cursor
            buffer == IF IsMR THEN mr.buffer ELSE SR_now.buffer
        IN  /\ call.ret = n
            /\ SlotsFrom(buffer, from, n) = Slice(call.input, 0, n)
            /\ IsSingle => SR_len(SR_now) = u + n
            /\ IsMR => \A c \in Allocated(pre.mr) : MR_len(mr, c) = MR_len(pre.mr, c) + n

\* C4 witness: an extend on two cursors with different backlogs was cut short
\* and what it wrote crosses the end of the array.
C4_Witness ==
    /\ IsMR
    /\ Called({"extend"})
    /\ pre.mr.current_read_cursor_count = 2
    /\ MR_len(pre.mr, 0) # MR_len(pre.mr, 1)
    /\ call.ret > 1
    /\ call.ret < Len(call.input)
    /\ pre.mr.write_cursor + call.ret > CAPACITY
    /\ call.ret = CAPACITY - MR_used_before - 1

\* The reader's len and pending elements before and after the last call.
LenBefore == IF IsMR THEN MR_len(pre.mr, call.cursor) ELSE SR_len(SR_pre)
LenAfter == IF IsMR THEN MR_len(mr, call.cursor) ELSE SR_len(SR_now)
PendingBefore == IF IsMR THEN pre.pending[call.cursor] ELSE pre.pending[0]
RingUnchanged == cb = pre.cb /\ dyn = pre.dyn /\ mr = pre.mr

\* C5: short-read determinism. take(k) with a = len() elements available
\* returns exactly the min(k, a) oldest unread elements in write order, no
\* padding, and leaves len() = a - min(k, a); a take that returns nothing (an
\* empty buffer, or k = 0) changes nothing.
C5_ShortReadDeterminism ==
    Called({"take", "take_to_buffer"}) =>
        LET n == Min(call.amount, LenBefore)
        IN  /\ Len(call.out) = n
            /\ call.ret = n
            /\ IsPrefix(call.out, PendingBefore)
            /\ LenAfter = LenBefore - n
            /\ n = 0 => RingUnchanged

\* C5 witness: a take asked for more than there was and got what there was,
\* from both ends of the array.
C5_Witness ==
    /\ IsCB
    /\ Called({"take"})
    /\ call.amount > Len(call.out)
    /\ Len(call.out) >= 2
    /\ pre.cb.read_cursor + Len(call.out) > CAPACITY
    /\ call.out = pre.pending[0]

TakeOps == {"take", "take_one", "take_all", "take_to_buffer"}

\* C6: the writer never advances past the slowest reader. An extend (or push)
\* of the multi-reader ring writes into no slot that some allocated cursor has
\* not read yet, leaves these slots as they were, and afterwards every
\* allocated cursor's len is its len before plus the count returned.
C6_WriterBehindSlowestReader ==
    (IsMR /\ Called({"extend", "push"})) =>
        \A c \in Allocated(pre.mr) :
            LET unread == SlotSet(pre.mr.read_cursors[c + 1], MR_len(pre.mr, c), CAPACITY)
                written == SlotSet(pre.mr.write_cursor, call.ret, CAPACITY)
            IN  /\ unread \cap written = {}
                /\ \A i \in unread : mr.buffer[i + 1] = pre.mr.buffer[i + 1]
                /\ MR_unread(mr, c) = MR_unread(pre.mr, c) \o Slice(call.input, 0, call.ret)
                /\ MR_len(mr, c) = MR_len(pre.mr, c) + call.ret

\* C6 witness: with one cursor drained and the other not, an extend was cut
\* short at the slot before the slow cursor's read position.
C6_Witness ==
    /\ IsMR
    /\ Called({"extend"})
    /\ pre.mr.current_read_cursor_count = 2
    /\ MR_len(pre.mr, 0) > 0
    /\ MR_len(pre.mr, 1) = 0
    /\ call.ret > 0
    /\ call.ret < Len(call.input)
    /\ MR_len(mr, 0) = CAPACITY - 1
    /\ mr.write_cursor < pre.mr.write_cursor

\* C7: multi-reader independence. For every allocated cursor the unread
\* elements are exactly those accepted by extend since the cursor exists and
\* not yet handed to it, in order; every take on a cursor returns a prefix of
\* them and leaves what every other cursor has left to read as it was; and
\* take_all returns all of them.
C7_ReaderIndependence ==
    IsMR =>
        /\ \A c \in Allocated(mr) : MR_unread(mr, c) = pending[c]
        /\ Called(TakeOps) =>
              /\ IsPrefix(call.out, pre.pending[call.cursor])
              /\ \A c \in Allocated(mr) \ {call.cursor} :
                    MR_unread(mr, c) = MR_unread(pre.mr, c)
        /\ Called({"take_all"}) =>
              /\ call.out = pre.pending[call.cursor]
              /\ pending[call.cursor] = <<>>

\* C7 witness: the second cursor, created after the first and behind it in
\* reading, has taken all it had, from both ends of the array.
C7_Witness ==
    /\ IsMR
    /\ Called({"take_all"})
    /\ call.cursor = 1
    /\ Len(call.out) >= 2
    /\ pre.mr.read_cursors[2] + Len(call.out) > CAPACITY
    /\ pre.mr.read_cursors[2] < CAPACITY
    /\ pre.pending[0] # <<>>
    /\ Len(pre.pending[0]) < Len(call.out)

\* C9: frame of the cursor-scoped reads. take, take_one, take_all and
\* take_to_buffer on cursor c change nothing but read_cursors[c]: not the
\* write cursor, no other slot of the registry, not the cursor count, not the
\* backing store; raw_data, len, is_empty and is_full change nothing.
C9_ReadFrame ==
    IsMR =>
        /\ Called(TakeOps) =>
              /\ mr.write_cursor = pre.mr.write_cursor
              /\ mr.current_read_cursor_count = pre.mr.current_read_cursor_count
              /\ mr.buffer = pre.mr.buffer
              /\ \A d \in Readers \ {call.cursor} :
                    mr.read_cursors[d + 1] = pre.mr.read_cursors[d + 1]
        /\ Called({"raw_data", "len", "is_empty", "is_full"}) => mr = pre.mr

\* C9 witness: the second of two cursors has taken elements while the first
\* still has some to read.
C9_Witness ==
    /\ IsMR
    /\ Called({"take_to_buffer"})
    /\ call.cursor = 1
    /\ call.ret >= 2
    /\ mr.read_cursors[2] # pre.mr.read_cursors[2]
    /\ mr.read_cursors[1] # mr.read_cursors[2]
    /\ MR_len(mr, 0) > 0

\* The most the cursors other than c have left to read.
MR_used_by_others(self, c) ==
    MaxOrDefault({MR_len(self, d) : d \in Allocated(self) \ {c}})

\* C10: skip_current_data(c) puts cursor c at the write cursor, so that
\* len(c) == 0, and changes nothing else: not the write cursor, the backing
\* store, the cursor count or any other cursor's position and len. A cursor
\* that has nothing to read (as one skipped after each write) takes no space
\* from an extend: extend then returns min(k, C - 1 - the largest len of the
\* other cursors).
C10_SkipCurrentData ==
    IsMR =>
        /\ Called({"skip_current_data"}) =>
              /\ mr.read_cursors[call.cursor + 1] = mr.write_cursor
              /\ MR_len(mr, call.cursor) = 0
              /\ mr.write_cursor = pre.mr.write_cursor
              /\ mr.buffer = pre.mr.buffer
              /\ mr.current_read_cursor_count = pre.mr.current_read_cursor_count
              /\ \A d \in Readers \ {call.cursor} :
                    /\ mr.read_cursors[d + 1] = pre.mr.read_cursors[d + 1]
                    /\ d \in Allocated(mr) => MR_len(mr, d) = MR_len(pre.mr, d)
              /\ MR_largest_used_space(mr) = MR_used_by_others(mr, call.cursor)
        /\ Called({"extend", "push"}) =>
              \A c \in Allocated(pre.mr) :
                  MR_len(pre.mr, c) = 0 =>
                      call.ret = Min(Len(call.input),
                                     CAPACITY - 1 - MR_used_by_others(pre.mr, c))

\* C10 witness: the first cursor, full, was skipped while the second one had
\* elements left to read.
C10_Witness ==
    /\ IsMR
    /\ Called({"skip_current_data"})
    /\ call.cursor = 0
    /\ MR_len(pre.mr, 0) = CAPACITY - 1
    /\ MR_len(mr, 1) > 0
    /\ MR_largest_used_space(mr) < MR_largest_used_space(pre.mr)

\* C11: create_read_cursor, called with fewer than MAX_READ_CURSOR_COUNT
\* cursors allocated, returns the next free slot as the handle and starts the
\* new cursor at the current write cursor: its len is 0 and it has nothing to
\* read; the write cursor, the backing store and the position and len of
\* every cursor created before are unchanged. What a cursor takes later is a
\* prefix of what extend accepted after the cursor was created.
C11_CreateReadCursor ==
    IsMR =>
        /\ Called({"create_read_cursor"}) =>
              /\ call.ret = pre.mr.current_read_cursor_count
              /\ Allocated(mr) = Allocated(pre.mr) \cup {call.ret}
              /\ mr.read_cursors[call.ret + 1] = pre.mr.write_cursor
              /\ MR_len(mr, call.ret) = 0
              /\ MR_unread(mr, call.ret) = <<>>
              /\ mr.write_cursor = pre.mr.write_cursor
              /\ mr.buffer = pre.mr.buffer
              /\ \A d \in Allocated(pre.mr) :
                    /\ mr.read_cursors[d + 1] = pre.mr.read_cursors[d + 1]
                    /\ MR_len(mr, d) = MR_len(pre.mr, d)
        /\ Called(TakeOps) => IsPrefix(call.out, pre.pending[call.cursor])

\* C11 witness: a second cursor was created after the write cursor had
\* wrapped, while the first cursor still had elements to read.
C11_Witness ==
    /\ IsMR
    /\ Called({"create_read_cursor"})
    /\ call.ret = 1
    /\ MR_len(mr, 0) > 0
    /\ mr.write_cursor > 0
    /\ mr.write_cursor < mr.read_cursors[1]

\* C12: cursor registry exhaustion. The call of create_read_cursor number n
\* returns the handle n - 1, a slot of the registry no earlier call returned,
\* for n = 1 .. MAX_READ_CURSOR_COUNT; from then on every call of
\* create_read_cursor, the first as well as any after it, panics and returns
\* no handle.
C12_RegistryExhaustion ==
    IsMR =>
        LET count == mr.current_read_cursor_count
            res == MR_create_read_cursor(mr)
        IN  /\ ~failed => count <= MAX_READ_CURSOR_COUNT
            /\ count < MAX_READ_CURSOR_COUNT =>
                  /\ ~res.panic
                  /\ res.ret = count
                  /\ res.ret \in Readers
                  /\ res.self.current_read_cursor_count = count + 1
            /\ count >= MAX_READ_CURSOR_COUNT => res.panic
            /\ call.op # "none" =>
                  /\ mr.current_read_cursor_count >= pre.mr.current_read_cursor_count
                  /\ Called({"create_read_cursor"}) =>
                        /\ call.ret = pre.mr.current_read_cursor_count
                        /\ call.ret \in Readers
                        /\ count = call.ret + 1
                  /\ (~failed /\ call.op # "create_read_cursor") =>
                        count = pre.mr.current_read_cursor_count

\* C12 witness: with every slot handed out, a call of create_read_cursor has
\* panicked, and so would the next one.
C12_Witness ==
    /\ IsMR
    /\ failed
    /\ call.op = "create_read_cursor"
    /\ pre.mr.current_read_cursor_count = MAX_READ_CURSOR_COUNT
    /\ MR_create_read_cursor(mr).panic

\* C13: a create_read_cursor that panics because the registry is full leaves
\* the ring as it was: the cursor count (still at most
\* MAX_READ_CURSOR_COUNT), every slot of the registry, the write cursor and
\* the backing store; an extend after it returns what it would have returned
\* before it.
C13_FailedCreateChangesNothing ==
    (IsMR /\ failed /\ call.op = "create_read_cursor") =>
        /\ mr.current_read_cursor_count <= MAX_READ_CURSOR_COUNT
        /\ mr.current_read_cursor_count = pre.mr.current_read_cursor_count
        /\ mr.read_cursors = pre.mr.read_cursors
        /\ mr.write_cursor = pre.mr.write_cursor
        /\ mr.buffer = pre.mr.buffer
        /\ \A k \in 0..1 : MR_extend(mr, Offer(k)) = MR_extend(pre.mr, Offer(k))

\* C14: read cursor range. In every reachable state each stored read cursor
\* is an index of the backing store, strictly less than the capacity: the
\* read_cursor of the single-reader rings and read_cursors[c] of every
\* allocated cursor of the multi-reader ring.
C14_ReadCursorInRange ==
    /\ IsCB => cb.read_cursor \in 0..(CAPACITY - 1)
    /\ IsDyn => dyn.read_cursor \in 0..(dyn.capacity - 1)
    /\ IsMR => \A c \in Allocated(mr) : mr.read_cursors[c + 1] \in 0..(CAPACITY - 1)

\* C15: full and empty are distinguishable. In every reachable state, for
\* every capacity of at least one slot, is_full() is true exactly when
\* len() == capacity - 1, is_empty() exactly when len() == 0, the two are
\* never both true, and a new buffer is empty and not full.
C15_FullEmptyDistinct ==
    /\ IsCB =>
          /\ CB_is_full(cb) <=> CB_len(cb) = CAPACITY - 1
          /\ CB_is_empty(cb) <=> CB_len(cb) = 0
          /\ ~(CB_is_full(cb) /\ CB_is_empty(cb))
          /\ cb = CB_new => (CB_is_empty(cb) /\ ~CB_is_full(cb))
    /\ IsDyn =>
          /\ Dyn_is_full(dyn) <=> Dyn_len(dyn) = dyn.capacity - 1
          /\ Dyn_is_empty(dyn) <=> Dyn_len(dyn) = 0
          /\ ~(Dyn_is_full(dyn) /\ Dyn_is_empty(dyn))
          /\ dyn = Dyn_new(dyn.capacity) => (Dyn_is_empty(dyn) /\ ~Dyn_is_full(dyn))
    /\ IsMR =>
          \A c \in Allocated(mr) :
              /\ MR_is_full(mr, c) <=> MR_len(mr, c) = CAPACITY - 1
              /\ MR_is_empty(mr, c) <=> MR_len(mr, c) = 0
              /\ ~(MR_is_full(mr, c) /\ MR_is_empty(mr, c))
              /\ Called({"create_read_cursor"}) /\ call.ret = c =>
                    (MR_is_empty(mr, c) /\ ~MR_is_full(mr, c))

\* C16: a full buffer accepts nothing more. An extend of any input and a push
\* of any item, called when is_full() holds (in the multi-reader ring: when
\* some allocated cursor has len == CAPACITY - 1), does not panic, returns 0
\* and leaves the cursors and the backing store as they were; a push called
\* in any other state returns 1.
C16_FullAcceptsNothing ==
    call.op \in {"extend", "push"} =>
        /\ (IsCB /\ CB_is_full(pre.cb)) => (~failed /\ call.ret = 0 /\ cb = pre.cb)
        /\ IsDyn =>
              /\ Dyn_is_full(pre.dyn) => (~failed /\ call.ret = 0 /\ dyn = pre.dyn)
              /\ (call.op = "push" /\ ~Dyn_is_full(pre.dyn)) => (~failed /\ call.ret = 1)
        /\ IsMR =>
              LET full == \E c \in Allocated(pre.mr) : MR_is_full(pre.mr, c)
              IN  /\ full => (~failed /\ call.ret = 0 /\ mr = pre.mr)
                  /\ (call.op = "push" /\ ~full) => (~failed /\ call.ret = 1)

\* C16 witness: a push into a full multi-reader ring has returned 0; one
\* cursor was full, the other drained, the write cursor behind the full
\* cursor's read position.
C16_Witness ==
    /\ IsMR
    /\ Called({"push"})
    /\ call.ret = 0
    /\ MR_is_full(pre.mr, 1)
    /\ MR_is_empty(pre.mr, 0)
    /\ pre.mr.write_cursor < pre.mr.read_cursors[2]

\* The slot at the reader's read position before the last call.
OldestBefore ==
    IF IsMR
    THEN SlotsFrom(pre.mr.buffer, pre.mr.read_cursors[call.cursor + 1], 1)[1]
    ELSE SlotsFrom(SR_pre.buffer, SR_pre.read_cursor, 1)[1]

\* C18: take_one. With len() > 0 it returns the oldest unread element, the
\* one at the read position and the first of those accepted and not yet
\* taken, and reduces len() by exactly 1; with len() == 0 it returns the
\* default value and leaves the cursors and the backing store unchanged. It
\* does not panic.
C18_TakeOne ==
    call.op = "take_one" =>
        /\ ~failed
        /\ LenBefore > 0 =>
              /\ call.ret = OldestBefore
              /\ call.ret = PendingBefore[1]
              /\ LenAfter = LenBefore - 1
        /\ LenBefore = 0 =>
              /\ call.ret = Default
              /\ RingUnchanged

\* C18 witness: take_one on the second cursor, whose stored read position
\* was past the last slot, has returned an element; the first cursor had
\* more to read.
C18_Witness ==
    /\ IsMR
    /\ Called({"take_one"})
    /\ call.cursor = 1
    /\ pre.mr.read_cursors[2] = CAPACITY
    /\ LenBefore >= 2
    /\ call.ret # Default
    /\ MR_len(mr, 0) > LenBefore

\* The methods that make elements available to a reader.
WriteOps == {"extend", "push"}

\* C19: take_all returns exactly the len() (len(cursor)) unread elements in
\* write order, without panicking, and is_empty() holds for that reader right
\* afterwards. A reader with nothing to read gets the empty sequence from
\* every take, and no call other than an extend or push that accepts
\* something gives it anything to read.
C19_TakeAll ==
    /\ call.op = "take_all" =>
          /\ ~failed
          /\ Len(call.out) = LenBefore
          /\ call.out = PendingBefore
          /\ call.out = IF IsMR THEN MR_unread(pre.mr, call.cursor) ELSE SR_unread(SR_pre)
          /\ LenAfter = 0
          /\ IF IsMR THEN MR_is_empty(mr, call.cursor) ELSE Dyn_is_empty(dyn)
    /\ (Called(TakeOps) /\ LenBefore = 0) => call.out = <<>>
    /\ (call.op # "none" /\ ~failed /\ ~(call.op \in WriteOps /\ call.ret > 0)) =>
          /\ IsCB => (CB_is_empty(pre.cb) => CB_is_empty(cb))
          /\ IsDyn => (Dyn_is_empty(pre.dyn) => Dyn_is_empty(dyn))
          /\ IsMR => \A c \in Allocated(pre.mr) :
                        MR_is_empty(pre.mr, c) => MR_is_empty(mr, c)

\* C19 witness: take_all has returned a full ring's elements from both ends
\* of the array.
C19_Witness ==
    /\ IsDyn
    /\ Called({"take_all"})
    /\ Len(call.out) = dyn.capacity - 1
    /\ Len(call.out) >= 3
    /\ pre.dyn.read_cursor < pre.dyn.capacity
    /\ pre.dyn.read_cursor + Len(call.out) > pre.dyn.capacity
    /\ Dyn_is_empty(dyn)

\* The backing store and the read position raw_data was called with.
RawBuffer == IF IsMR THEN pre.mr.buffer ELSE SR_pre.buffer
RawReadCursor == IF IsMR THEN pre.mr.read_cursors[call.cursor + 1] ELSE SR_pre.read_cursor

W_pre == IF IsMR THEN pre.mr ELSE SR_pre
W_now == IF IsMR THEN mr ELSE SR_now
W_capacity == IF IsDyn THEN dyn.capacity ELSE CAPACITY
W_trace ==
    IF IsCB THEN CB_extend_trace(pre.cb, call.input)
    ELSE IF IsDyn THEN Dyn_extend_trace(pre.dyn, call.input)
    ELSE MR_extend_trace(pre.mr, call.input)

\* How often a branch occurs in a trace, and whether b occurs after a.
Occurrences(trace, b) == Cardinality({i \in 1..Len(trace) : trace[i] = b})
OccursAfter(trace, a, b) ==
    \E i \in 1..Len(trace), j \in 1..Len(trace) : i < j /\ trace[i] = a /\ trace[j] = b

\* C23: split write placement. An extend (or push) that writes n elements
\* from write cursor w on stores accepted element i in slot (w + i) mod
\* capacity for every i < n, also when the write is split at the end of the
\* array, changes no other slot, and leaves the write cursor at
\* (w + n) mod capacity, an index in [0, capacity); neither part of a split
\* write is truncated.
C23_SplitWritePlacement ==
    Called(WriteOps) =>
        LET n == call.ret
            w == W_pre.write_cursor
            written == SlotSet(w, n, W_capacity)
        IN  /\ \A i \in 0..(n - 1) :
                  W_now.buffer[((w + i) % W_capacity) + 1] = call.input[i + 1]
            /\ \A slot \in 0..(W_capacity - 1) \ written :
                  W_now.buffer[slot + 1] = W_pre.buffer[slot + 1]
            /\ W_now.write_cursor = (w + n) % W_capacity
            /\ W_now.write_cursor \in 0..(W_capacity - 1)
            /\ ~OccursAfter(W_trace, "split", "truncate")
            /\ "split" \in {W_trace[i] : i \in 1..Len(W_trace)} =>
                  /\ n = Len(call.input) \/ W_trace[1] = "truncate"
                  /\ Occurrences(W_trace, "copy") = 2

\* C23 witness: an extend of three or more elements, none cut off, was
\* split at the end of the array and has left the write cursor past slot 0.
C23_Witness ==
    /\ IsCB
    /\ Called({"extend"})
    /\ call.ret = Len(call.input)
    /\ call.ret >= 3
    /\ W_trace = <<"split", "copy", "copy">>
    /\ pre.cb.write_cursor + call.ret > CAPACITY
    /\ cb.write_cursor >= 2

\* The copy_from_slice (clone_from_slice) calls the last take made.
TakeCopies ==
    IF IsCB THEN CB_take_copies(pre.cb, Filled(Default, call.amount))
    ELSE IF IsDyn THEN Dyn_take_copies(pre.dyn, Filled(Default, call.amount))
    ELSE MR_take_copies(pre.mr, Filled(Default, call.amount), call.cursor)

\* C26: extend terminates with bounded recursion. With capacity >= 1, in
\* every reachable state and for every input, an extend (or push) returns
\* without a panic, takes the truncation branch at most once and the split
\* branch at most once, and copies at most two contiguous ranges into the
\* backing store; a take copies at most two contiguous ranges out of it.
C26_BoundedRecursion ==
    /\ call.op \in WriteOps =>
          /\ ~failed
          /\ Occurrences(W_trace, "panic") = 0
          /\ Occurrences(W_trace, "truncate") <= 1
          /\ Occurrences(W_trace, "split") <= 1
          /\ Occurrences(W_trace, "copy") <= 2
          /\ W_trace[Len(W_trace)] = "copy"
    /\ Called(TakeOps) => TakeCopies <= 2

\* C26 witness: an extend of the multi-reader ring was truncated, then split
\* at the end of the array, and made its two copies.
C26_Witness ==
    /\ IsMR
    /\ Called({"extend"})
    /\ W_trace = <<"truncate", "split", "copy", "copy">>
    /\ call.ret < Len(call.input)
    /\ call.ret >= 2

\* The read side of the ring the program uses: the read cursor of a
\* single-reader ring, the registry and the cursor count of the multi-reader
\* ring.
ReadSide(rings) ==
    IF IsCB THEN <<rings.cb.read_cursor>>
    ELSE IF IsDyn THEN <<rings.dyn.read_cursor>>
    ELSE <<rings.mr.read_cursors, rings.mr.current_read_cursor_count>>

\* C27: frame of writes. extend and push change no read cursor: not the
\* read_cursor of a single-reader ring, no entry of read_cursors and not the
\* cursor count of the multi-reader ring, whether the write is complete,
\* truncated, split at the end of the array, or writes nothing.
C27_WriteFrame ==
    Called(WriteOps) =>
        ReadSide([cb |-> cb, dyn |-> dyn, mr |-> mr]) = ReadSide(pre)

\* C27 witness: an extend of the multi-reader ring, truncated and split at
\* the end of the array, has left two different read cursors where they were.
C27_Witness ==
    /\ IsMR
    /\ Called({"extend"})
    /\ Occurrences(W_trace, "truncate") = 1
    /\ Occurrences(W_trace, "split") = 1
    /\ Allocated(mr) = Readers
    /\ mr.read_cursors[1] # mr.read_cursors[2]
    /\ mr.read_cursors[1] > 0
    /\ mr.write_cursor # pre.mr.write_cursor
    /\ mr.read_cursors = pre.mr.read_cursors

\* C28: the multi-reader ring with no cursor allocated. Every extend of k
\* elements (and every push) returns min(k, CAPACITY - 1) whatever was written
\* before: nothing holds the writer back, and it writes over older elements.
\* The write cursor advances by the count returned, modulo the capacity. The
\* first cursor created afterwards starts empty: its len is 0, no element
\* written before is pending for it, a take of any amount gives it nothing,
\* and what it takes later is a prefix of what was accepted after its
\* creation.
C28_NoCursorAllocated ==
    IsMR =>
        /\ (Called(WriteOps) /\ pre.mr.current_read_cursor_count = 0) =>
              /\ call.ret = Min(Len(call.input), CAPACITY - 1)
              /\ mr.write_cursor = (pre.mr.write_cursor + call.ret) % CAPACITY
              /\ \A i \in 0..(call.ret - 1) :
                    mr.buffer[((pre.mr.write_cursor + i) % CAPACITY) + 1] = call.input[i + 1]
              /\ pending = [r \in Readers |-> <<>>]
        /\ (Called({"create_read_cursor"}) /\ pre.mr.current_read_cursor_count = 0) =>
              /\ call.ret = 0
              /\ MR_len(mr, 0) = 0
              /\ MR_is_empty(mr, 0)
              /\ pending[0] = <<>>
              /\ \A amount \in 0..MaxAmount :
                    /\ ~MR_take(mr, amount, 0).panic
                    /\ MR_take(mr, amount, 0).ret = <<>>
        /\ (Called(TakeOps) /\ call.cursor = 0) => IsPrefix(call.out, pre.pending[0])

\* C28 witness: with no cursor allocated, an extend of more elements than fit
\* was cut to CAPACITY - 1 elements and went across the end of the array,
\* over elements written before.
C28_Witness ==
    /\ IsMR
    /\ Called({"extend"})
    /\ pre.mr.current_read_cursor_count = 0
    /\ pre.mr.write_cursor > 0
    /\ Len(call.input) > CAPACITY - 1
    /\ call.ret = CAPACITY - 1
    /\ \A slot \in 1..CAPACITY : pre.mr.buffer[slot] # Default
    /\ mr.buffer # pre.mr.buffer

\* ------------------------------------------------ a reader that never reads
\* The multi-reader ring with a writer that keeps calling extend with a
\* non-empty input and never panics, and with one cursor, StalledCursor, that
\* never takes and is never skipped.  The other cursors read (one element or
\* all there is) or skip when they like, or not at all.
StalledCursor == MAX_READ_CURSOR_COUNT - 1

BP_Init == Init /\ IsMR

BP_CreateReadCursor ==
    /\ mr.current_read_cursor_count < MAX_READ_CURSOR_COUNT
    /\ MR_CreateReadCursor

BP_ExtendNonEmpty ==
    \E k \in 1..MaxInput :
        LET input == Offer(k)
            res == MR_extend(mr, input)
        IN  MR_Step(res, Call("extend", 0, input, 0, res.ret, <<>>, FALSE),
                    Accept(Cursors(mr), input, res.ret), res.ret)

BP_TakeOne ==
    \E cursor \in Cursors(mr) \ {StalledCursor} :
        LET res == MR_take_one(mr, cursor)
            found == IF res.panic THEN <<>> ELSE MR_take(mr, 1, cursor).ret
        IN  MR_Step(res, Call("take_one", cursor, <<>>, 1, res.ret, found, FALSE),
                    Deliver(cursor, Len(found)), 0)

BP_TakeAll ==
    \E cursor \in Cursors(mr) \ {StalledCursor} :
        LET res == MR_take_all(mr, cursor)
            out == IF res.panic THEN <<>> ELSE res.ret
        IN  MR_Step(res, Call("take_all", cursor, <<>>, MR_len(mr, cursor), Len(out), out, FALSE),
                    Deliver(cursor, Len(out)), 0)

BP_SkipCurrentData ==
    \E cursor \in Cursors(mr) \ {StalledCursor} :
        MR_Step(MR_skip_current_data(mr, cursor),
                Call("skip_current_data", cursor, <<>>, 0, 0, <<>>, FALSE), Drop(cursor), 0)

BP_Next ==
    \/ BP_CreateReadCursor
    \/ BP_ExtendNonEmpty
    \/ BP_TakeOne
    \/ BP_TakeAll
    \/ BP_SkipCurrentData
    \/ Return

\* Every call returns, and the writer calls extend again and again.  A call
\* of extend is possible whenever no call is in progress, so the second
\* condition is strong fairness of BP_ExtendNonEmpty, stated on the calls made.
WriterKeepsCalling == []<>Called({"extend"})

SpecBackpressure ==
    /\ BP_Init
    /\ [][BP_Next]_vars
    /\ WF_vars(Return)
    /\ WriterKeepsCalling

StalledAllocated == StalledCursor \in Allocated(mr)
StalledFull == StalledAllocated /\ MR_len(mr, StalledCursor) = CAPACITY - 1

\* Once the stalled cursor's len is CAPACITY - 1, an extend returns 0 and
\* writes nothing.
StalledStopsWriter ==
    (Called({"extend"}) /\ StalledCursor \in Allocated(pre.mr)
        /\ MR_len(pre.mr, StalledCursor) = CAPACITY - 1) =>
            /\ call.ret = 0
            /\ mr.buffer = pre.mr.buffer
            /\ mr.write_cursor = pre.mr.write_cursor

\* No other cursor is full.
OthersNotFull ==
    \A c \in Allocated(mr) \ {StalledCursor} : MR_len(mr, c) < CAPACITY - 1

\* C8, without a condition on the other cursors: if one allocated cursor
\* never takes and is never skipped and the writer keeps calling extend with
\* non-empty input, that cursor's len eventually reaches CAPACITY - 1 and
\* stays there, and from then on every extend returns 0 and writes nothing.
C8_Backpressure_AsClaimed ==
    /\ StalledAllocated ~> StalledFull
    /\ [][StalledFull => StalledFull']_vars
    /\ []StalledStopsWriter

\* C8: backpressure. If one allocated cursor never takes and is never skipped,
\* the writer keeps calling extend with non-empty input, and no other cursor
\* stays full for ever (again and again none of the other cursors is full),
\* that cursor's len eventually reaches CAPACITY - 1; once there it stays
\* there, and every extend then returns 0 and writes nothing, whatever the
\* other cursors have left to read.
C8_Backpressure ==
    /\ ([]<>OthersNotFull) => (StalledAllocated ~> StalledFull)
    /\ [][StalledFull => StalledFull']_vars
    /\ []StalledStopsWriter

\* C8 witness: the stalled cursor is full, the other cursor is drained, and
\* an extend of a non-empty input has returned 0.
C8_Witness ==
    /\ Called({"extend"})
    /\ Len(call.input) > 0
    /\ call.ret = 0
    /\ StalledFull
    /\ \A c \in Allocated(mr) \ {StalledCursor} : MR_len(mr, c) = 0
    /\ Allocated(mr) # {StalledCursor}

\* --------------------------------------------- any capacity, 0 and 1 too
\* CircularBufferDyn::new takes any usize as the capacity. The program
\* constructs a CircularBufferDyn of any capacity from 0 on and writes and
\* reads; is_full, whose capacity - 1 is itself not a usize at capacity 0,
\* is not called.
AnyCapacities == 0..CAPACITY

AC_Init ==
    /\ variant = "CircularBufferDyn"
    /\ cb = CB_new
    /\ \E capacity \in AnyCapacities : dyn = Dyn_new(capacity)
    /\ mr = MR_new
    /\ failed = FALSE
    /\ next_val = 0
    /\ call = NoCall
    /\ pending = [r \in Readers |-> <<>>]
    /\ pre = NoCall
    /\ threads = NoThreads

AC_Next ==
    \/ Dyn_Extend
    \/ Dyn_Push
    \/ Dyn_Take
    \/ Dyn_TakeOne
    \/ Dyn_TakeAll
    \/ Dyn_RawData
    \/ Dyn_Len
    \/ Dyn_IsEmpty
    \/ Return

SpecAnyCapacity == AC_Init /\ [][AC_Next]_vars

\* C17: overflow is never an error. For every capacity CircularBufferDyn::new
\* accepts, 0 and 1 included, in every reachable state and for every input,
\* the empty one included, extend (and push) returns a count and does not
\* panic.
C17_ExtendNeverFails ==
    call.op \in {"extend", "push"} => ~failed

\* ------------------------------------------------------ rings side by side
\* The program constructs a CircularBufferDyn of capacity CAPACITY and a
\* CircularBufferMultiRead with one cursor, created before any write, and
\* makes every call on both, with the same arguments; when variant is
\* "CircularBuffer" it constructs a CircularBuffer as well and makes every
\* call on all three (then only the methods CircularBuffer has). What each
\* ring returned is on record as call.out = <<of cb, of dyn, of mr>>.
LS_Init ==
    /\ variant \in {"CircularBuffer", "CircularBufferDyn"}
    /\ cb = CB_new
    /\ dyn = Dyn_new(CAPACITY)
    /\ mr = MR_create_read_cursor(MR_new).self
    /\ failed = FALSE
    /\ next_val = 0
    /\ call = NoCall
    /\ pending = [r \in Readers |-> <<>>]
    /\ pre = NoCall
    /\ threads = NoThreads

LS_Step(op, input, amount, rcb, rdyn, rmr, produced) ==
    /\ Idle
    /\ pre' = Snapshot
    /\ cb' = IF variant = "CircularBuffer" THEN rcb.self ELSE cb
    /\ dyn' = rdyn.self
    /\ mr' = rmr.self
    /\ failed' = ((variant = "CircularBuffer" /\ rcb.panic) \/ rdyn.panic \/ rmr.panic)
    /\ call' = Call(op, 0, input, amount, 0, <<rcb.ret, rdyn.ret, rmr.ret>>, FALSE)
    /\ next_val' = (next_val + produced) % ValMod
    /\ UNCHANGED <<variant, pending, threads>>

LS_Extend ==
    \E k \in 0..MaxInput :
        LET input == Offer(k)
            rmr == MR_extend(mr, input)
        IN  LS_Step("extend", input, 0, CB_extend(cb, input), Dyn_extend(dyn, input), rmr,
                    rmr.ret)

LS_Take ==
    \E amount \in 0..MaxAmount :
        LS_Step("take", <<>>, amount, CB_take(cb, amount), Dyn_take(dyn, amount),
                MR_take(mr, amount, 0), 0)

LS_TakeAll ==
    /\ variant = "CircularBufferDyn"
    /\ LS_Step("take_all", <<>>, 0, Returned(cb, <<>>), Dyn_take_all(dyn),
               MR_take_all(mr, 0), 0)

LS_RawData ==
    LS_Step("raw_data", <<>>, 0, CB_raw_data(cb), Dyn_raw_data(dyn), MR_raw_data(mr, 0), 0)

LS_Len ==
    LS_Step("len", <<>>, 0, Returned(cb, CB_len(cb)), Returned(dyn, Dyn_len(dyn)),
            Returned(mr, MR_len(mr, 0)), 0)

LS_IsEmpty ==
    LS_Step("is_empty", <<>>, 0, Returned(cb, CB_is_empty(cb)),
            Returned(dyn, Dyn_is_empty(dyn)), Returned(mr, MR_is_empty(mr, 0)), 0)

LS_IsFull ==
    LS_Step("is_full", <<>>, 0, Returned(cb, CB_is_full(cb)),
            Returned(dyn, Dyn_is_full(dyn)), Returned(mr, MR_is_full(mr, 0)), 0)

LS_Next ==
    \/ LS_Extend
    \/ LS_Take
    \/ LS_TakeAll
    \/ LS_RawData
    \/ LS_Len
    \/ LS_IsEmpty
    \/ LS_IsFull
    \/ Return

SpecLockstep == LS_Init /\ [][LS_Next]_vars

\* What the single-reader ring at the multi-reader ring's side returned.
LS_single_ret == IF IsCB THEN call.out[1] ELSE call.out[2]

\* C21: a multi-reader ring with exactly one cursor, created before any
\* write, is equivalent to the single-reader ring of the same capacity
\* (CircularBuffer; CircularBufferDyn where take_all is among the calls):
\* after every call of extend, take, take_all, len, is_empty, is_full and
\* raw_data both have returned the same, neither has panicked, and both hold
\* the same write cursor, read cursor and backing store.
C21_OneCursorIsSingleReader ==
    /\ ~failed
    /\ mr.current_read_cursor_count = 1
    /\ mr.write_cursor = SR_now.write_cursor
    /\ mr.read_cursors[1] = SR_now.read_cursor
    /\ mr.buffer = SR_now.buffer
    /\ call.op # "none" => call.out[3] = LS_single_ret

\* C21 witness: on both rings a take has returned the same elements from
\* both ends of the array, after an extend that was truncated.
C21_Witness ==
    /\ IsCB
    /\ call.op = "take"
    /\ ~failed
    /\ Len(call.out[3]) >= 2
    /\ call.out[3] = call.out[1]
    /\ pre.mr.read_cursors[1] + Len(call.out[3]) > CAPACITY
    /\ pre.mr.read_cursors[1] < CAPACITY
    /\ MR_len(pre.mr, 0) = CAPACITY - 1

\* C22: the dynamic ring created with capacity C and the compile-time ring
\* with CAPACITY = C are equivalent: after every call of extend and take
\* (and of the other methods both have) they have returned the same count or
\* the same elements, neither has panicked, and they hold equal cursors and
\* equal backing stores; the dynamic ring's capacity and the length of its
\* storage are what they were at construction.
C22_DynIsConst ==
    /\ dyn.capacity = CAPACITY
    /\ Len(dyn.buffer) = CAPACITY
    /\ IsCB =>
          /\ ~failed
          /\ dyn.write_cursor = cb.write_cursor
          /\ dyn.read_cursor = cb.read_cursor
          /\ dyn.buffer = cb.buffer
          /\ call.op # "none" => call.out[2] = call.out[1]

\* C22 witness: on both rings an extend split across the end of the array
\* and cut short has returned the same count.
C22_Witness ==
    /\ IsCB
    /\ call.op = "extend"
    /\ ~failed
    /\ call.out[1] = call.out[2]
    /\ call.out[2] >= 2
    /\ call.out[2] < Len(call.input)
    /\ pre.dyn.write_cursor + call.out[2] > CAPACITY
    /\ dyn.write_cursor > 0

\* ------------------------------------------------- readers that keep reading
\* The multi-reader ring with a writer that keeps calling extend with a
\* non-empty input and readers that keep taking: every cursor, once created,
\* calls take_one or take_all again and again (and may be skipped).
FR_Next ==
    \/ BP_CreateReadCursor
    \/ BP_ExtendNonEmpty
    \/ MR_TakeOne
    \/ MR_TakeAll
    \/ MR_SkipCurrentData
    \/ Return

\* Reader c keeps taking once its cursor exists.
ReaderKeepsTaking(c) ==
    []<>(c \notin Allocated(mr) \/ (Called({"take_one", "take_all"}) /\ call.cursor = c))

SpecFairReaders ==
    /\ BP_Init
    /\ [][FR_Next]_vars
    /\ WF_vars(Return)
    /\ WriterKeepsCalling
    /\ \A c \in Readers : ReaderKeepsTaking(c)

\* An extend of a non-empty input called when no allocated cursor is full
\* writes at least one element.
NotFullMeansProgress ==
    (Called({"extend"}) /\ Len(call.input) > 0
        /\ \A c \in Allocated(pre.mr) : MR_len(pre.mr, c) < CAPACITY - 1) =>
            call.ret >= 1

\* The writer has just written something.
WriterWrote == Called({"extend"}) /\ call.ret >= 1

\* C24: no reader can starve the writer for ever (capacity >= 2). As soon as
\* every cursor that was full has taken an element or was skipped, so that
\* no allocated cursor is full, the next extend of a non-empty input writes
\* at least one element; and if every allocated cursor keeps taking, a
\* writer that keeps calling extend with non-empty input writes elements
\* again and again.
C24_NoStarvation ==
    /\ []NotFullMeansProgress
    /\ []<>WriterWrote

\* C24 witness: an extend has written again right after both cursors, full
\* before, had each given up one element.
C24_Witness ==
    /\ WriterWrote
    /\ Allocated(pre.mr) = Readers
    /\ \A c \in Readers : MR_len(pre.mr, c) = CAPACITY - 2
    /\ \A c \in Readers : MR_len(mr, c) = CAPACITY - 1
    /\ Len(call.input) > call.ret

\* ------------------------------------------- threads sharing the ring
\* The doc comment of CircularBufferMultiRead offers the ring to several
\* threads, one cursor each. Here one writer thread calls extend and one
\* reader thread per cursor calls take, and a call is no longer one step:
\* each thread goes through the statements of its method, and the steps of
\* the threads interleave. The methods use plain loads and stores, so what
\* the threads see of each other depends on what the program around the ring
\* does (threads.sync):
\*   "mutex"  every call runs under one lock, from its first statement to
\*            its return;
\*   "none"   nothing orders the accesses of different threads: this is a
\*            data race, in which the stores and loads of one call may take
\*            effect in any order, the order of the statements included.
\* threads.owed is the ghost of the claim: per reader, the slots that hold
\* an element written for it that it has not copied out yet.
Syncs == {"mutex", "none"}

\* Each thread makes at most this many calls.
MaxCalls == 2

Unlocked == <<>>
WriterThread == <<"writer">>
ReaderThread(c) == <<"reader", c>>

\* The ring with all its cursors created, before the threads start.
RECURSIVE TH_ring(_)
TH_ring(n) == IF n = 0 THEN MR_new ELSE MR_create_read_cursor(TH_ring(n - 1)).self

WriterIdle ==
    [pc |-> "idle", input |-> <<>>, rest |-> <<>>, cursor_index |-> 0,
     largest_used_space |-> 0, write_at |-> 0, todo |-> <<>>, ret |-> 0]

ReaderIdle ==
    [pc |-> "idle", amount |-> 0, read_cursor |-> 0,
     straight_space |-> 0, wrapped_space |-> 0, output |-> <<>>, todo |-> <<>>]

TH_Init ==
    /\ variant = "CircularBufferMultiRead"
    /\ cb = CB_new
    /\ dyn = Dyn_new(CAPACITY)
    /\ mr = TH_ring(MAX_READ_CURSOR_COUNT)
    /\ failed = FALSE
    /\ next_val = 0
    /\ call = NoCall
    /\ pre = NoCall
    /\ pending = [r \in Readers |-> <<>>]
    /\ \E sync \in Syncs :
          threads = [sync |-> sync, lock |-> Unlocked, writer |-> WriterIdle,
                     readers |-> [c \in Readers |-> ReaderIdle],
                     writer_calls |-> 0,
                     reader_calls |-> [c \in Readers |-> 0],
                     owed |-> [c \in Readers |-> {}],
                     clobbered |-> FALSE, unwritten |-> FALSE]

\* A thread may enter a call: under the mutex, when no call is running.
MayEnter == threads.sync = "mutex" => threads.lock = Unlocked
Locked(thread) == IF threads.sync = "mutex" THEN thread ELSE Unlocked

\* The accesses a call has left (todo) that may take effect next: the first
\* one in the order of the statements, or any of them in a data race.
MayDo(todo, access) ==
    /\ \E i \in 1..Len(todo) : todo[i] = access
    /\ threads.sync = "mutex" => Head(todo) = access

Without(todo, access) == SelectSeq(todo, LAMBDA a : a # access)

TH_Frame == UNCHANGED <<variant, cb, dyn, call, pre>>

\* The reader holds the output of a take whose accesses have all taken effect.
TH_Taken(c) == threads.readers[c].pc = "copy" /\ threads.readers[c].todo = <<>>

\* The threads are followed until a call panics or a slot goes wrong: a
\* reader copies out a slot not written for it, the writer overwrites a
\* slot a reader has still to copy out, or a reader holds elements that do
\* not continue what it took before.
TH_Running ==
    /\ ~failed
    /\ ~threads.unwritten
    /\ ~threads.clobbered
    /\ \A c \in Readers :
          TH_Taken(c) => IsPrefix(threads.readers[c].output, pending[c])

\* ---- the writer thread: CircularBufferMultiRead::extend
\* extend is entered with an input.
TH_ExtendCall ==
    \E k \in 1..MaxInput :
        /\ TH_Running
        /\ threads.writer.pc = "idle"
        /\ threads.writer_calls < MaxCalls
        /\ MayEnter
        /\ threads' = [threads EXCEPT
              !.lock = Locked(WriterThread),
              !.writer_calls = threads.writer_calls + 1,
              !.writer = [WriterIdle EXCEPT !.pc = "measure", !.input = Offer(k)]]
        /\ UNCHANGED <<mr, failed, next_val, pending>>
        /\ TH_Frame

\* extend, line 69: the len of one more cursor enters the maximum.
TH_Measure ==
    LET w == threads.writer
    IN  /\ TH_Running
        /\ w.pc = "measure"
        /\ w.cursor_index < mr.current_read_cursor_count
        /\ threads' = [threads EXCEPT
              !.writer.cursor_index = w.cursor_index + 1,
              !.writer.largest_used_space =
                  IF MR_len(mr, w.cursor_index) > w.largest_used_space
                  THEN MR_len(mr, w.cursor_index) ELSE w.largest_used_space]
        /\ UNCHANGED <<mr, failed, next_val, pending>>
        /\ TH_Frame

\* extend, lines 70-82: with the maximum known, the branch is chosen. The
\* recursive calls start over at line 69: the truncated input, or the part
\* before the wrap with the part after it left for later. Locals that are
\* not read again (here the maximum, in take the amount) are cleared.
TH_Decide ==
    LET w == threads.writer
        available_space == CAPACITY - w.largest_used_space
        required_space == Len(w.input)
        available_space_before_wrap == CAPACITY - mr.write_cursor
        again == [w EXCEPT !.cursor_index = 0, !.largest_used_space = 0]
    IN  /\ TH_Running
        /\ w.pc = "measure"
        /\ w.cursor_index = mr.current_read_cursor_count
        /\ IF MR_input_too_large(required_space, available_space)
           THEN IF SliceOk(w.input, 0, MR_truncated_len(available_space))
                THEN /\ threads' = [threads EXCEPT !.writer =
                            [again EXCEPT !.input =
                                Slice(w.input, 0, MR_truncated_len(available_space))]]
                     /\ failed' = FALSE
                ELSE /\ threads' = threads
                     /\ failed' = TRUE
           ELSE IF available_space_before_wrap < required_space
           THEN /\ threads' = [threads EXCEPT !.writer =
                       [again EXCEPT
                           !.input = Slice(w.input, 0, available_space_before_wrap),
                           !.rest = <<MR_split_rest(w.input, available_space_before_wrap,
                                                    required_space)>> \o w.rest]]
                /\ failed' = FALSE
           ELSE /\ threads' = [threads EXCEPT !.writer =
                       [again EXCEPT !.pc = "write", !.write_at = mr.write_cursor,
                                 !.todo = <<"copy", "publish">>]]
                /\ failed' = FALSE
        /\ UNCHANGED <<mr, next_val, pending>>
        /\ TH_Frame

\* extend, line 85: the input is copied into the slots from the write cursor
\* on. Ghost: the slots are owed to every reader; a slot that was still owed
\* to a reader has been overwritten before the reader consumed it.
TH_Copy ==
    LET w == threads.writer
        required_space == Len(w.input)
        slots == SlotSet(w.write_at, required_space, CAPACITY)
    IN  /\ TH_Running
        /\ w.pc = "write"
        /\ MayDo(w.todo, "copy")
        /\ mr' = [mr EXCEPT !.buffer =
                     CopyFromSlice(mr.buffer, w.write_at, w.write_at + required_space, w.input)]
        /\ pending' = Accept(Readers, w.input, required_space)
        /\ threads' = [threads EXCEPT
              !.writer.todo = Without(w.todo, "copy"),
              !.owed = [c \in Readers |-> threads.owed[c] \cup slots],
              !.clobbered = (threads.clobbered
                               \/ \E c \in Readers : threads.owed[c] \cap slots # {})]
        /\ UNCHANGED <<failed, next_val>>
        /\ TH_Frame

\* extend, line 86: the write cursor moves past what was written.
TH_Publish ==
    LET w == threads.writer
    IN  /\ TH_Running
        /\ w.pc = "write"
        /\ MayDo(w.todo, "publish")
        /\ mr' = [mr EXCEPT !.write_cursor = MR_advance_write(w.write_at, Len(w.input))]
        /\ threads' = [threads EXCEPT
              !.writer.todo = Without(w.todo, "publish"),
              !.writer.ret = w.ret + Len(w.input)]
        /\ UNCHANGED <<failed, next_val, pending>>
        /\ TH_Frame

\* extend, line 81: the first recursive call has returned, the second one
\* starts with the part after the wrap.
TH_SecondPart ==
    LET w == threads.writer
    IN  /\ TH_Running
        /\ w.pc = "write"
        /\ w.todo = <<>>
        /\ w.rest # <<>>
        /\ threads' = [threads EXCEPT !.writer =
              [w EXCEPT !.pc = "measure", !.input = Head(w.rest), !.rest = Tail(w.rest),
                        !.cursor_index = 0, !.largest_used_space = 0]]
        /\ UNCHANGED <<mr, failed, next_val, pending>>
        /\ TH_Frame

\* extend, line 87: extend returns the number of elements it wrote.
TH_ExtendReturn ==
    LET w == threads.writer
    IN  /\ TH_Running
        /\ w.pc = "write"
        /\ w.todo = <<>>
        /\ w.rest = <<>>
        /\ next_val' = (next_val + w.ret) % ValMod
        /\ threads' = [threads EXCEPT !.lock = Unlocked, !.writer = WriterIdle]
        /\ UNCHANGED <<mr, failed, pending>>
        /\ TH_Frame

\* ---- a reader thread: CircularBufferMultiRead::take_to_buffer
\* take is entered with an amount (lines 117-119), and take_to_buffer reads
\* the cursor into a local (line 125): the cursor of the reader, which no
\* other thread writes.
TH_TakeCall(c) ==
    \E amount \in 1..MaxAmount :
        /\ TH_Running
        /\ threads.readers[c].pc = "idle"
        /\ threads.reader_calls[c] < MaxCalls
        /\ MayEnter
        /\ threads' = [threads EXCEPT
              !.lock = Locked(ReaderThread(c)),
              !.reader_calls[c] = threads.reader_calls[c] + 1,
              !.readers[c] = [ReaderIdle EXCEPT !.pc = "len", !.amount = amount,
                                                !.read_cursor = mr.read_cursors[c + 1]]]
        /\ UNCHANGED <<mr, failed, next_val, pending>>
        /\ TH_Frame

\* take_to_buffer, lines 128-138: len is computed from the cursor and the
\* write cursor as they are now; with nothing to read the call returns 0.
TH_Len(c) ==
    LET r == threads.readers[c]
        used_space == MR_len(mr, c)
        used_required_space == MR_used_required_space(used_space, r.amount)
        straight_space == Min(used_required_space, CAPACITY - r.read_cursor)
        wrapped_space == used_required_space - straight_space
    IN  /\ TH_Running
        /\ r.pc = "len"
        /\ threads' = [threads EXCEPT !.readers[c] =
              IF used_space = 0
              THEN [r EXCEPT !.pc = "copy", !.amount = 0]
              ELSE [r EXCEPT !.pc = "copy", !.amount = 0,
                             !.straight_space = straight_space,
                             !.wrapped_space = wrapped_space,
                             !.output = Filled(Default, used_required_space),
                             !.todo = IF wrapped_space # 0
                                      THEN <<"straight", "wrapped", "store">>
                                      ELSE <<"straight", "store">>]]
        /\ UNCHANGED <<mr, failed, next_val, pending>>
        /\ TH_Frame

\* The reader copies n slots from position from into its output at position
\* at. Ghost: the slots are no longer owed to it; a slot that was not owed to
\* it was not (or not yet) written for it.
TH_CopyOut(c, access, from, at, n) ==
    LET r == threads.readers[c]
        slots == SlotSet(from, n, CAPACITY)
    IN  /\ TH_Running
        /\ r.pc = "copy"
        /\ MayDo(r.todo, access)
        /\ threads' = [threads EXCEPT
              !.readers[c].todo = Without(r.todo, access),
              !.readers[c].output =
                  CopyFromSlice(r.output, at, at + n, Slice(mr.buffer, from, from + n)),
              !.owed[c] = threads.owed[c] \ slots,
              !.unwritten = (threads.unwritten \/ ~(slots \subseteq threads.owed[c]))]
        /\ UNCHANGED <<mr, failed, next_val, pending>>
        /\ TH_Frame

\* take_to_buffer, line 136: the straight part.
TH_CopyStraight(c) ==
    TH_CopyOut(c, "straight", threads.readers[c].read_cursor, 0,
               threads.readers[c].straight_space)

\* take_to_buffer, lines 139-141: the wrapped part, from slot 0 on.
TH_CopyWrapped(c) ==
    TH_CopyOut(c, "wrapped", 0, threads.readers[c].straight_space,
               threads.readers[c].wrapped_space)

\* take_to_buffer, line 146: the local cursor is stored in the registry.
TH_StoreCursor(c) ==
    LET r == threads.readers[c]
    IN  /\ TH_Running
        /\ r.pc = "copy"
        /\ MayDo(r.todo, "store")
        /\ mr' = MR_store_read_cursor(mr, c,
                    MR_read_cursor_after(r.read_cursor, r.straight_space, r.wrapped_space))
        /\ threads' = [threads EXCEPT !.readers[c].todo = Without(r.todo, "store")]
        /\ UNCHANGED <<failed, next_val, pending>>
        /\ TH_Frame

\* take_to_buffer, line 147, and take, line 120: all accesses of the call
\* have taken effect, the reader has the output and goes on.
TH_TakeReturn(c) ==
    LET r == threads.readers[c]
    IN  /\ TH_Running
        /\ TH_Taken(c)
        /\ pending' = Deliver(c, Min(Len(r.output), Len(pending[c])))
        /\ threads' = [threads EXCEPT !.lock = Unlocked, !.readers[c] = ReaderIdle]
        /\ UNCHANGED <<mr, failed, next_val>>
        /\ TH_Frame

TH_Next ==
    \/ TH_ExtendCall \/ TH_Measure \/ TH_Decide \/ TH_Copy \/ TH_Publish
    \/ TH_SecondPart \/ TH_ExtendReturn
    \/ \E c \in Readers : TH_TakeCall(c)
    \/ \E c \in Readers : TH_Len(c)
    \/ \E c \in Readers : TH_CopyStraight(c)
    \/ \E c \in Readers : TH_CopyWrapped(c)
    \/ \E c \in Readers : TH_StoreCursor(c)
    \/ \E c \in Readers : TH_TakeReturn(c)

SpecThreads == TH_Init /\ [][TH_Next]_vars

\* No reader has copied out a slot that was not written for it.
NoUnwrittenRead == ~threads.unwritten

\* The writer has overwritten no slot that a reader had still to copy out.
NoClobber == ~threads.clobbered

\* What a reader holds at the end of a take continues what it took before:
\* it is the beginning of what was written for it and not yet handed to it.
TakesArePrefix ==
    \A c \in Readers :
        TH_Taken(c) => IsPrefix(threads.readers[c].output, pending[c])

ThreadsSafe == NoUnwrittenRead /\ NoClobber /\ TakesArePrefix

====
